---- MODULE Spec2Model ----
(***************************************************************************)
(* Front end of the compiler: the twin-buffer lexer (lexer.c) and the      *)
(* LL(1) predictive parser (parser.c).  Characters are their ASCII codes,  *)
(* strings are sequences of codes, token kinds and non-terminals are the   *)
(* names of the enumerators.                                               *)
(***************************************************************************)
EXTENDS Integers, Sequences, FiniteSets, TLC

VARIABLES
    \* ---- lexer (getAllTokens and the globals of lexer.c) ----
    file,        \* the bytes of the input file
    stale,       \* what the uninitialised twinBuffer holds before any load
    buffer,      \* twinBuffer[2*BUFFER_SZ]
    fwdPtr,      \* forward cursor
    fileOff,     \* read offset of the FILE*
    fileEof,     \* feof(fp)
    retractFlag, \* global retractFlag
    lineNumber,  \* lineNumber of getAllTokens
    symTable,    \* entries of the symbol table, in insertion order
    tokenList,   \* token nodes appended so far
    lexpc,       \* "lexing", "done", "diverged" (a loop never ends), "aborted"
    hist,        \* history of the calls: what the cursor did to the file
    \* ---- parser (parseTokens and the globals of parser.c) ----
    Grammar,     \* the rule array (numOfRules is its length)
    AutoFirst,   \* FIRST list of every non-terminal, in insertion order
    AutoFollow,  \* FOLLOW list of every non-terminal, in insertion order
    parseTable,  \* the cells of the parse table that are not NULL
    conflicts,   \* history: "Multiple defined entries" diagnostics printed
    tokens,      \* the token list handed to parseTokens
    inputPtr,    \* index into tokens; Len(tokens)+1 stands for NULL
    theStack,    \* node ids, top first
    nodes,       \* the parse nodes allocated so far; node 1 is the root
    hasSyntaxError,
    cln,
    ppc,         \* "idle", "loop", "returned", "diverged"
    plast,       \* history: the branch the last step of the loop took
    printed,     \* the rows printParseTree wrote, as node ids
    \* ---- parseInputSourceCode, called from the menu loop of the driver ----
    grammarTxt,  \* the rules in grammar.txt
    grammarOpens, \* whether fopen("grammar.txt") succeeds
    grammarLoaded,
    firstFollowComputed,
    parseTreeInitialized,
    ipc,         \* the call parseInputSourceCode is at, or the loop inside it
    passGri,     \* gri of the pass over the rules that is under way
    modified,    \* the flag of that pass
    round,       \* history: calls of parseInputSourceCode so far
    \* ---- the names of the non-terminals ----
    nonTerminalsInitialized,
    nonTerminalToString, \* the array of NT_NOT_FOUND names
    ntRule,      \* the two names of a rule readGrammar read last, and their values
    npc          \* "idle", "start", "ready", "killed"

lexVars == <<file, stale, buffer, fwdPtr, fileOff, fileEof, retractFlag,
             lineNumber, symTable, tokenList, lexpc, hist>>
nameVars == <<nonTerminalsInitialized, nonTerminalToString, ntRule, npc>>
initVars == <<grammarTxt, grammarOpens, grammarLoaded, firstFollowComputed, parseTreeInitialized,
              ipc, passGri, modified, round, nameVars>>
parseVars == <<Grammar, AutoFirst, AutoFollow, parseTable, conflicts, tokens, inputPtr, theStack, nodes, hasSyntaxError,
               cln, ppc, plast, printed, initVars>>
vars == <<lexVars, parseVars>>

-----------------------------------------------------------------------------
(* Characters *)

Printable == <<" ", "!", "dquote", "#", "$", "%", "&", "'", "(", ")", "*", "+",
    ",", "-", ".", "/", "0", "1", "2", "3", "4", "5", "6", "7", "8", "9", ":",
    ";", "<", "=", ">", "?", "@", "A", "B", "C", "D", "E", "F", "G", "H", "I",
    "J", "K", "L", "M", "N", "O", "P", "Q", "R", "S", "T", "U", "V", "W", "X",
    "Y", "Z", "[", "bslash", "]", "^", "_", "bquote", "a", "b", "c", "d", "e", "f", "g",
    "h", "i", "j", "k", "l", "m", "n", "o", "p", "q", "r", "s", "t", "u", "v",
    "w", "x", "y", "z", "{", "|", "}", "~">>

\* the code of a character written as a one-character string
Ord == [c \in {Printable[i] : i \in 1..Len(Printable)} |->
            31 + (CHOOSE i \in 1..Len(Printable) : Printable[i] = c)]
       @@ ("\n" :> 10) @@ ("\t" :> 9) @@ ("\r" :> 13)

\* a C string literal, given as a tuple of one-character strings
Str(t) == [i \in 1..Len(t) |-> Ord[t[i]]]

NUL == 0

isdigit(ch) == ch >= Ord["0"] /\ ch <= Ord["9"]
islower(ch) == ch >= Ord["a"] /\ ch <= Ord["z"]
isupper(ch) == ch >= Ord["A"] /\ ch <= Ord["Z"]
isalpha(ch) == islower(ch) \/ isupper(ch)

-----------------------------------------------------------------------------
(* lexerDef.h *)

ALPHABET_COUNT == 26
BUFFER_SZ == 256

\* enum Token, in declaration order
Token == <<"ASSIGNOP", "COMMENT", "FIELDID", "ID", "NUM", "RNUM", "FUNID",
    "RUID", "WITH", "PARAMETERS", "END", "WHILE", "UNION", "ENDUNION",
    "DEFINETYPE", "AS", "TYPE", "MAIN", "GLOBAL", "PARAMETER", "LIST", "SQL",
    "SQR", "INPUT", "OUTPUT", "INT", "REAL", "COMMA", "SEM", "COLON", "DOT",
    "ENDWHILE", "OP", "CL", "IF", "THEN", "ENDIF", "READ", "WRITE", "RETURN",
    "PLUS", "MINUS", "MUL", "DIV", "CALL", "RECORD", "ENDRECORD", "ELSE",
    "AND", "OR", "NOT", "LT", "LE", "EQ", "GT", "GE", "NE", "EPS", "DOLLAR",
    "LEXICAL_ERROR", "ID_LENGTH_EXC", "FUN_LENGTH_EXC", "TK_NOT_FOUND">>

\* the integer value of an enumerator
TokenValue == [t \in {Token[i] : i \in 1..Len(Token)} |->
                  (CHOOSE i \in 1..Len(Token) : Token[i] = t) - 1]

-----------------------------------------------------------------------------
(* Keyword trie *)

\* the calls of setupKeywordTrie, in order
Keywords == <<
    [word |-> Str(<<"w","i","t","h">>), tk |-> "WITH"],
    [word |-> Str(<<"p","a","r","a","m","e","t","e","r","s">>), tk |-> "PARAMETERS"],
    [word |-> Str(<<"e","n","d">>), tk |-> "END"],
    [word |-> Str(<<"w","h","i","l","e">>), tk |-> "WHILE"],
    [word |-> Str(<<"u","n","i","o","n">>), tk |-> "UNION"],
    [word |-> Str(<<"e","n","d","u","n","i","o","n">>), tk |-> "ENDUNION"],
    [word |-> Str(<<"d","e","f","i","n","e","t","y","p","e">>), tk |-> "DEFINETYPE"],
    [word |-> Str(<<"a","s">>), tk |-> "AS"],
    [word |-> Str(<<"t","y","p","e">>), tk |-> "TYPE"],
    [word |-> Str(<<"g","l","o","b","a","l">>), tk |-> "GLOBAL"],
    [word |-> Str(<<"p","a","r","a","m","e","t","e","r">>), tk |-> "PARAMETER"],
    [word |-> Str(<<"l","i","s","t">>), tk |-> "LIST"],
    [word |-> Str(<<"i","n","p","u","t">>), tk |-> "INPUT"],
    [word |-> Str(<<"o","u","t","p","u","t">>), tk |-> "OUTPUT"],
    [word |-> Str(<<"i","n","t">>), tk |-> "INT"],
    [word |-> Str(<<"r","e","a","l">>), tk |-> "REAL"],
    [word |-> Str(<<"e","n","d","w","h","i","l","e">>), tk |-> "ENDWHILE"],
    [word |-> Str(<<"i","f">>), tk |-> "IF"],
    [word |-> Str(<<"t","h","e","n">>), tk |-> "THEN"],
    [word |-> Str(<<"e","n","d","i","f">>), tk |-> "ENDIF"],
    [word |-> Str(<<"r","e","a","d">>), tk |-> "READ"],
    [word |-> Str(<<"w","r","i","t","e">>), tk |-> "WRITE"],
    [word |-> Str(<<"r","e","t","u","r","n">>), tk |-> "RETURN"],
    [word |-> Str(<<"c","a","l","l">>), tk |-> "CALL"],
    [word |-> Str(<<"r","e","c","o","r","d">>), tk |-> "RECORD"],
    [word |-> Str(<<"e","n","d","r","e","c","o","r","d">>), tk |-> "ENDRECORD"],
    [word |-> Str(<<"e","l","s","e">>), tk |-> "ELSE"] >>

\* A trie is the set of its nodes; a node is named by the path of child
\* indexes that leads to it and carries isEnd and tokenType.
newTrieNode(path) == [path |-> path, isEnd |-> 0, tokenType |-> "TK_NOT_FOUND"]

initTrie == {newTrieNode(<<>>)}

TrieNodeAt(trie, path) == CHOOSE n \in trie : n.path = path
TrieHas(trie, path) == \E n \in trie : n.path = path

addKeyword(trie, word, tkType) ==
    LET idx(i) == word[i] - Ord["a"]
        pathTo(k) == [i \in 1..k |-> idx(i)]
        created == trie \cup {newTrieNode(pathTo(k)) :
                                k \in {j \in 1..Len(word) : ~TrieHas(trie, pathTo(j))}}
        last == pathTo(Len(word))
    IN  {IF n.path = last THEN [n EXCEPT !.isEnd = 1, !.tokenType = tkType] ELSE n
            : n \in created}

RECURSIVE AddKeywords(_, _)
AddKeywords(trie, k) ==
    IF k > Len(Keywords) THEN trie
    ELSE AddKeywords(addKeyword(trie, Keywords[k].word, Keywords[k].tk), k + 1)

setupKeywordTrie == AddKeywords(initTrie, 1)

\* a lookup that stops at the first keyword found along the path
findKeyword_prefix(trie, word) ==
    LET idx(i) == word[i] - Ord["a"]
        pathTo(k) == [i \in 1..k |-> idx(i)]
        ends == {k \in 1..Len(word) :
                    /\ \A j \in 1..k : TrieHas(trie, pathTo(j))
                    /\ TrieNodeAt(trie, pathTo(k)).isEnd # 0}
    IN  IF ends = {} THEN "TK_NOT_FOUND"
        ELSE TrieNodeAt(trie, pathTo(CHOOSE k \in ends : \A j \in ends : k <= j)).tokenType

findKeyword(trie, word) ==
    LET idx(i) == word[i] - Ord["a"]
        pathTo(k) == [i \in 1..k |-> idx(i)]
    IN  IF \E k \in 1..Len(word) : ~TrieHas(trie, pathTo(k)) THEN "TK_NOT_FOUND"
        ELSE LET curr == TrieNodeAt(trie, pathTo(Len(word)))
             IN  IF curr.isEnd # 0 THEN curr.tokenType ELSE "TK_NOT_FOUND"

-----------------------------------------------------------------------------
(* Symbol table and token list *)

newSymbolTableEntry(lexeme, tkType, numVal) ==
    [lexeme |-> lexeme, tokenType |-> tkType, numericValue |-> numVal]

addToken(table, entry) == Append(table, entry)

\* index of the first entry with that lexeme, 0 for NULL
lookupToken(table, lexeme) ==
    IF \E i \in 1..Len(table) : table[i].lexeme = lexeme
    THEN CHOOSE i \in 1..Len(table) :
            /\ table[i].lexeme = lexeme
            /\ \A j \in 1..(i - 1) : table[j].lexeme # lexeme
    ELSE 0

newTokenNode(entry, lineNum) == [entry |-> entry, lineNum |-> lineNum]

appendTokenNode(list, node) == Append(list, node)

-----------------------------------------------------------------------------
(* Twin buffer.  A scanner record d holds what getNextToken reads and       *)
(* writes: the twin buffer, *forwardPtr, the FILE* (off, eof), the global   *)
(* retractFlag, *lineNum, the symbol table, and the locals beginPtr, state, *)
(* ch, lexeme, tokenNode.  d.h is the history of the cursor.                *)

\* the C string held by a char array: the bytes before the first NUL
CStr(a) ==
    IF \E i \in 1..Len(a) : a[i] = NUL
    THEN SubSeq(a, 1, (CHOOSE i \in 1..Len(a) :
                        a[i] = NUL /\ \A j \in 1..(i - 1) : a[j] # NUL) - 1)
    ELSE a

\* the byte the file holds at logical position p (1-based); NUL stands for
\* the sentinel planted after the last byte
FileByte(p) == IF p >= 1 /\ p <= Len(file) THEN file[p] ELSE NUL

\* fread(buffer + base, 1, BUFFER_SZ, fp) and the sentinel after a short
\* read; at end of file only the sentinel at buffer[base]
Load(d, base) ==
    IF d.eof THEN [d EXCEPT !.buffer = [d.buffer EXCEPT ![base] = NUL]]
    ELSE LET avail == Len(file) - d.off
             bytesRead == IF avail >= BUFFER_SZ THEN BUFFER_SZ ELSE avail
         IN  [d EXCEPT !.buffer = [i \in 0..(2 * BUFFER_SZ - 1) |->
                                     IF i >= base /\ i < base + bytesRead
                                     THEN file[d.off + (i - base) + 1]
                                     ELSE IF bytesRead < BUFFER_SZ /\ i = base + bytesRead
                                     THEN NUL ELSE d.buffer[i]],
                       !.off = d.off + bytesRead,
                       !.eof = bytesRead < BUFFER_SZ]

\* history of a fetch that returned ch at index fwd; load: a segment was
\* (re)filled, flag: retractFlag was set
Track(h, ch, fwd, load, flag) ==
    [h EXCEPT
        !.pos = @ + 1,
        !.coherent = @ /\ (h.pos + 1 <= Len(file) + 1 => ch = FileByte(h.pos + 1)),
        !.pend1 = FALSE,
        !.bad1 = @ \/ (h.pend1 /\ (load \/ ~flag)),
        !.ok1 = @ \/ (h.pend1 /\ ~load /\ flag),
        !.pend2 = h.pend2 /\ ~(fwd = 0 \/ fwd = BUFFER_SZ),
        !.bad2 = @ \/ (h.pend2 /\ load),
        !.ok2 = @ \/ (h.pend2 /\ ~load /\ (fwd = 0 \/ fwd = BUFFER_SZ))]

\* a fetch that leaves retractFlag as it is
Advance_keepFlag(d, fwd, load) ==
    [d EXCEPT !.fwd = fwd, !.ch = d.buffer[fwd],
              !.h = Track(d.h, d.buffer[fwd], fwd, load, d.flag)]

\* retractFlag = false; *forwardPtr = (*forwardPtr + 1) % (2 * BUFFER_SZ);
\* return buffer[*forwardPtr]
Advance(d, fwd, load) ==
    [d EXCEPT !.flag = FALSE, !.fwd = fwd, !.ch = d.buffer[fwd],
              !.h = Track(d.h, d.buffer[fwd], fwd, load, d.flag)]

\* fetchNextChar with the value of retractFlag it consults
Fetch(d, suppress) ==
    IF d.fwd = BUFFER_SZ - 1 /\ ~suppress
    THEN Advance(Load(d, BUFFER_SZ), BUFFER_SZ, TRUE)
    ELSE IF d.fwd = 2 * BUFFER_SZ - 1 /\ ~suppress
    THEN Advance(Load(d, 0), 0, TRUE)
    ELSE Advance(d, (d.fwd + 1) % (2 * BUFFER_SZ), FALSE)

fetchNextChar_ignoreFlag(d) == Fetch(d, FALSE)

fetchNextChar(d) == Fetch(d, d.flag)

\* the chars written to lexeme[] before the terminating NUL
extractLexeme(beginPtr, forwardPtr, buf) ==
    IF forwardPtr >= beginPtr
    THEN [i \in 1..(forwardPtr - beginPtr + 1) |-> buf[beginPtr + i - 1]]
    ELSE [i \in 1..(forwardPtr + 2 * BUFFER_SZ - beginPtr + 1) |->
            buf[(beginPtr + i - 1) % (2 * BUFFER_SZ)]]

getLexemeLength(begPtr, forwardPtr) ==
    IF forwardPtr >= begPtr THEN forwardPtr - begPtr + 1
    ELSE 2 * BUFFER_SZ + forwardPtr - begPtr + 1

\* extractLexeme(beginPtr, forwardPtr, lexeme, buffer) inside getNextToken;
\* lexeme[] has BUFFER_SZ slots, a longer copy writes past its end
Extract(d) ==
    LET lex == extractLexeme(d.beginPtr, d.fwd, d.buffer)
    IN  [d EXCEPT !.lexeme = CStr(lex),
                  !.h = [d.h EXCEPT !.ub = @ \/ Len(lex) >= BUFFER_SZ,
                                    !.from = d.h.bpos, !.to = d.h.pos]]

\* --(*forwardPtr); wrap; set retractFlag on the last index of a segment
RetractOne(d) ==
    LET f1 == d.fwd - 1
        f2 == IF f1 < 0 THEN f1 + 2 * BUFFER_SZ ELSE f1
        atEnd == f2 = BUFFER_SZ - 1 \/ f2 = 2 * BUFFER_SZ - 1
    IN  [d EXCEPT !.fwd = f2,
                  !.flag = IF atEnd THEN TRUE ELSE d.flag,
                  !.h = [d.h EXCEPT !.pos = @ - 1, !.pend1 = atEnd,
                                    !.one = @ \/ atEnd]]

\* *forwardPtr -= 2; wrap; set retractFlag on the last two indexes of a segment
RetractTwo(d) ==
    LET f1 == d.fwd - 2
        f2 == IF f1 < 0 THEN f1 + 2 * BUFFER_SZ ELSE f1
        atEnd == \/ f2 = BUFFER_SZ - 1 \/ f2 = BUFFER_SZ - 2
                 \/ f2 = 2 * BUFFER_SZ - 1 \/ f2 = 2 * BUFFER_SZ - 2
    IN  [d EXCEPT !.fwd = f2,
                  !.flag = IF atEnd THEN TRUE ELSE d.flag,
                  !.h = [d.h EXCEPT !.pos = @ - 2, !.pend2 = atEnd,
                                    !.two = TRUE, !.landed = IF atEnd THEN f2 ELSE @]]

-----------------------------------------------------------------------------
(* getNextToken: one operator per case of the switch.  The operator of a    *)
(* case that starts with ch = fetchNextChar(...) takes the record after     *)
(* that fetch.  Besides the states of the switch, 401, 801, 811 and 651 are *)
(* the positions inside the for loops of the length-exceeded branches and   *)
(* of the comment state.                                                    *)

Zero == [m |-> 0, e |-> 0]      \* numericValue 0; a value is m/100 * 10^e

Goto(d, s) == [d EXCEPT !.state = s]

\* lookupToken, then newSymbolTableEntry/addToken when it returned NULL,
\* then newTokenNode (history: tk is the kind the accepting state passes)
MakeToken_noLookup(d, tk, numVal) ==
    LET entry == newSymbolTableEntry(d.lexeme, tk, numVal)
    IN  [d EXCEPT !.tab = addToken(d.tab, entry),
                  !.tokenNode = newTokenNode(entry, d.line),
                  !.h = [d.h EXCEPT !.tk = tk]]

MakeToken(d, tk, numVal) ==
    LET i == lookupToken(d.tab, d.lexeme)
        entry == IF i # 0 THEN d.tab[i] ELSE newSymbolTableEntry(d.lexeme, tk, numVal)
    IN  [d EXCEPT !.tab = IF i # 0 THEN d.tab ELSE addToken(d.tab, entry),
                  !.tokenNode = newTokenNode(entry, d.line),
                  !.h = [d.h EXCEPT !.tk = tk]]

Return(d) == [d EXCEPT !.ret = TRUE]

\* an accepting state without look-ahead
Accept(d, tk) == Return(MakeToken(Extract(d), tk, Zero))

\* the else branch of a state that read one character too many
RetractAccept(d, tk) == Return(MakeToken(Extract(RetractOne(d)), tk, Zero))

RECURSIVE DecimalValue(_, _, _, _)
\* for (i = 0; lexeme[i] != stop; i++) val = val * 10 + (lexeme[i] - '0');
\* stop is NUL for an integer literal and '.' for a real literal
DecimalValue(lexeme, stop, i, val) ==
    IF i > Len(lexeme) \/ lexeme[i] = stop THEN val
    ELSE DecimalValue(lexeme, stop, i + 1, val * 10 + (lexeme[i] - Ord["0"]))

\* index (1-based) of the '.' of a real literal
DotIndex(lexeme) == CHOOSE i \in 1..Len(lexeme) :
                        lexeme[i] = Ord["."] /\ \A j \in 1..(i - 1) : lexeme[j] # Ord["."]

\* value of digits '.' digit digit, times 100
RealValue100(lexeme) ==
    LET i == DotIndex(lexeme)
    IN  DecimalValue(lexeme, Ord["."], 1, 0) * 100
          + (lexeme[i + 1] - Ord["0"]) * 10 + (lexeme[i + 2] - Ord["0"])

\* the exponent computed by state 7
Exponent(lexeme) ==
    LET i == DotIndex(lexeme) + 4
        exp == IF isdigit(lexeme[i]) THEN lexeme[i] * 10 + lexeme[i + 1]
               ELSE lexeme[i + 1] * 10 + lexeme[i + 2]
    IN  IF lexeme[i] = Ord["-"] THEN 0 - exp ELSE exp

NumToken(d) ==
    LET e == Extract(d)
    IN  Return(MakeToken(e, "NUM", [m |-> DecimalValue(e.lexeme, NUL, 1, 0) * 100, e |-> 0]))

\* ++beginPtr (modulo the buffer) on a blank
Skip(d) == [d EXCEPT !.beginPtr = (d.beginPtr + 1) % (2 * BUFFER_SZ),
                     !.h = [d.h EXCEPT !.bpos = @ + 1]]

State0(d) ==
    IF d.ch = Ord["\n"] THEN [Skip(d) EXCEPT !.line = @ + 1]
        ELSE IF d.ch = Ord[" "] \/ d.ch = Ord["\t"] \/ d.ch = Ord["\r"] THEN Skip(d)
        ELSE IF isdigit(d.ch) THEN Goto(d, 5)
        ELSE IF d.ch = Ord["%"] THEN Goto(d, 65)
        ELSE IF d.ch = Ord[">"] THEN Goto(d, 56)
        ELSE IF d.ch = Ord["<"] THEN Goto(d, 53)
        ELSE IF d.ch = Ord["="] THEN Goto(d, 68)
        ELSE IF d.ch = Ord["_"] THEN Goto(d, 69)
        ELSE IF d.ch = Ord["/"] THEN Goto(d, 45)
        ELSE IF d.ch = Ord["@"] THEN Goto(d, 73)
        ELSE IF d.ch = Ord["*"] THEN Goto(d, 44)
        ELSE IF d.ch = Ord["#"] THEN Goto(d, 75)
        ELSE IF d.ch = Ord["["] THEN Goto(d, 23)
        ELSE IF d.ch = Ord["]"] THEN Goto(d, 24)
        ELSE IF d.ch = Ord[","] THEN Goto(d, 29)
        ELSE IF d.ch = Ord[":"] THEN Goto(d, 31)
        ELSE IF d.ch = Ord[";"] THEN Goto(d, 30)
        ELSE IF d.ch = Ord["+"] THEN Goto(d, 42)
        ELSE IF d.ch = Ord[")"] THEN Goto(d, 35)
        ELSE IF d.ch = Ord["-"] THEN Goto(d, 43)
        ELSE IF d.ch = Ord["("] THEN Goto(d, 34)
        ELSE IF d.ch = Ord["&"] THEN Goto(d, 76)
        ELSE IF d.ch = Ord["~"] THEN Goto(d, 52)
        ELSE IF d.ch = Ord["!"] THEN Goto(d, 78)
        ELSE IF d.ch = Ord["a"] \/ (d.ch > Ord["d"] /\ d.ch <= Ord["z"]) THEN Goto(d, 3)
        ELSE IF d.ch >= Ord["b"] /\ d.ch <= Ord["d"] THEN Goto(d, 79)
        ELSE IF d.ch = Ord["."] THEN Goto(d, 59)
        ELSE IF d.ch = NUL
        THEN \* the DOLLAR entry is not added to the symbol table
             Return([d EXCEPT !.lexeme = <<>>,
                        !.tokenNode = newTokenNode(
                            newSymbolTableEntry(<<>>, "DOLLAR", Zero), d.line),
                        !.h = [d.h EXCEPT !.from = d.h.bpos, !.to = d.h.pos,
                                          !.tk = "DOLLAR"]])
        ELSE Return(MakeToken([d EXCEPT !.lexeme = <<d.ch>>,
                                  !.h = [d.h EXCEPT !.from = d.h.bpos, !.to = d.h.pos]],
                              "LEXICAL_ERROR", Zero))

\* field identifier or keyword, after the look-ahead was retracted
FieldOrKeyword(d) ==
    LET e == Extract(RetractOne(d))
        tk == findKeyword(setupKeywordTrie, e.lexeme)
    IN  Return(MakeToken(e, IF tk = "TK_NOT_FOUND" THEN "FIELDID" ELSE tk, Zero))

State3(d) ==
    IF ~islower(d.ch) THEN FieldOrKeyword(d) ELSE d

\* the length-exceeded branch of states 4 and 80 (cap 20) and 8 and 81
\* (cap 30): truncate, append "...", make the token, read one more character
\* and enter the loop that skips the rest
LengthExceeded(d, cap, tk, loopState) ==
    LET e == Extract(d)
        cut == [e EXCEPT !.lexeme = SubSeq(e.lexeme, 1, cap) \o Str(<<".", ".", ".">>)]
    IN  Goto(fetchNextChar(MakeToken(cut, tk, Zero)), loopState)

State4(d) ==
    IF d.ch < Ord["2"] \/ d.ch > Ord["7"] THEN RetractAccept(d, "ID")
        ELSE IF getLexemeLength(d.beginPtr, d.fwd) > 20
        THEN LengthExceeded(d, 20, "ID_LENGTH_EXC", 401)
        ELSE d

\* for (; ch >= 'b' && ch <= 'd'; ch = fetchNextChar(...)); retract;
\* if (ch >= '2' && ch <= '7') state = 4, else return tokenNode
State401(d) ==
    IF d.ch >= Ord["b"] /\ d.ch <= Ord["d"] THEN fetchNextChar(d)
    ELSE LET r == RetractOne(d)
         IN  IF d.ch >= Ord["2"] /\ d.ch <= Ord["7"] THEN Goto(r, 4) ELSE Return(r)

State5(d) ==
    IF d.ch = Ord["."] THEN Goto(d, 60)
        ELSE IF ~isdigit(d.ch) THEN NumToken(RetractOne(d))
        ELSE d

State6(d) ==
    IF d.ch = Ord["E"] THEN Goto(d, 62)
        ELSE LET e == Extract(RetractOne(d))
             IN  Return(MakeToken(e, "RNUM", [m |-> RealValue100(e.lexeme), e |-> 0]))

State7(d) ==
    LET e == Extract(d)
    IN  Return(MakeToken(e, "RNUM",
                [m |-> RealValue100(e.lexeme), e |-> Exponent(e.lexeme)]))

State8(d) ==
    IF isdigit(d.ch) THEN Goto(d, 81)
        ELSE IF ~isalpha(d.ch) THEN RetractAccept(d, "FUNID")
        ELSE IF getLexemeLength(d.beginPtr, d.fwd) > 30
        THEN LengthExceeded(d, 30, "FUN_LENGTH_EXC", 801)
        ELSE d

\* for (; isdigit(ch); ch = fetchNextChar(...)); retract;
\* if (isdigit(ch)) state = 81, else return tokenNode
State801(d) ==
    IF isdigit(d.ch) THEN fetchNextChar(d)
    ELSE LET r == RetractOne(d)
         IN  IF isdigit(d.ch) THEN Goto(r, 81) ELSE Return(r)

State9(d) ==
    IF ~islower(d.ch) THEN RetractAccept(d, "RUID") ELSE d

State19(d) ==
    IF isalpha(d.ch) THEN Goto(d, 8)
        ELSE IF isdigit(d.ch) THEN Goto(d, 81)
        ELSE RetractAccept(d, "MAIN")

State53(d) ==
    IF d.ch = Ord["-"] THEN Goto(d, 66)
        ELSE IF d.ch = Ord["="] THEN Goto(d, 54)
        ELSE RetractAccept(d, "LT")

State56(d) ==
    IF d.ch = Ord["="] THEN Goto(d, 57) ELSE RetractAccept(d, "GT")

State60(d) ==
    IF isdigit(d.ch) THEN Goto(d, 61) ELSE NumToken(RetractTwo(d))

\* a state that moves to next on a digit and otherwise reports the text
\* read so far as an unrecognised pattern
DigitOrError(d, next) ==
    IF isdigit(d.ch) THEN Goto(d, next) ELSE RetractAccept(d, "LEXICAL_ERROR")

State62(d) ==
    IF isdigit(d.ch) THEN Goto(d, 64)
        ELSE IF d.ch = Ord["+"] \/ d.ch = Ord["-"] THEN Goto(d, 63)
        ELSE RetractAccept(d, "LEXICAL_ERROR")

\* comment: the token is made from "%", then the rest of the line is read
State65(d) == Goto(MakeToken(Extract(d), "COMMENT", Zero), 651)

\* for (; (ch = fetchNextChar(...)) != '\n'; ); ++(*lineNum); return
State651(d) ==
    IF d.ch # Ord["\n"] THEN d ELSE Return([d EXCEPT !.line = @ + 1])

State66(d) ==
    IF d.ch = Ord["-"] THEN Goto(d, 67)
        ELSE Return(MakeToken(Extract(RetractTwo(d)), "LT", Zero))

\* the same state without the retraction of the character read
CharOrError_noRetract(d, c, next) ==
    IF d.ch = Ord[c] THEN Goto(d, next) ELSE Accept(d, "LEXICAL_ERROR")

\* a state that moves to next on character c and otherwise reports the text
\* read so far as an unrecognised pattern
CharOrError(d, c, next) ==
    IF d.ch = Ord[c] THEN Goto(d, next) ELSE RetractAccept(d, "LEXICAL_ERROR")

State69(d) ==
    IF d.ch = Ord["m"] THEN Goto(d, 70)
        ELSE IF isalpha(d.ch) THEN Goto(d, 8)
        ELSE RetractAccept(d, "LEXICAL_ERROR")

\* states 70, 71, 72: the prefix "_m", "_ma", "_mai" of "_main"
MainPrefix(d, c, next) ==
    IF isdigit(d.ch) THEN Goto(d, 81)
        ELSE IF d.ch = Ord[c] THEN Goto(d, next)
        ELSE IF isalpha(d.ch) THEN Goto(d, 8)
        ELSE RetractAccept(d, "FUNID")

State75(d) ==
    IF islower(d.ch) THEN Goto(d, 9) ELSE RetractAccept(d, "LEXICAL_ERROR")

State79(d) ==
    IF islower(d.ch) THEN Goto(d, 3)
        ELSE IF d.ch >= Ord["2"] /\ d.ch <= Ord["7"] THEN Goto(d, 80)
        ELSE FieldOrKeyword(d)

State80(d) ==
    IF d.ch >= Ord["2"] /\ d.ch <= Ord["7"] THEN Goto(d, 4)
        ELSE IF d.ch < Ord["b"] \/ d.ch > Ord["d"] THEN RetractAccept(d, "ID")
        ELSE IF getLexemeLength(d.beginPtr, d.fwd) > 20
        THEN LengthExceeded(d, 20, "ID_LENGTH_EXC", 401)
        ELSE d

State81(d) ==
    IF ~isdigit(d.ch) THEN RetractAccept(d, "FUNID")
        ELSE IF getLexemeLength(d.beginPtr, d.fwd) > 30
        THEN LengthExceeded(d, 30, "FUN_LENGTH_EXC", 811)
        ELSE d

\* for (; isdigit(ch); ch = fetchNextChar(...)); retract; return tokenNode
State811(d) ==
    IF isdigit(d.ch) THEN fetchNextChar(d) ELSE Return(RetractOne(d))

\* one iteration of while (true) switch (state)
Step(d) ==
    CASE d.state = 0 -> State0(fetchNextChar(d))
      [] d.state = 1 -> Accept(d, "ASSIGNOP")
      [] d.state = 3 -> State3(fetchNextChar(d))
      [] d.state = 4 -> State4(fetchNextChar(d))
      [] d.state = 401 -> State401(d)
      [] d.state = 5 -> State5(fetchNextChar(d))
      [] d.state = 6 -> State6(fetchNextChar(d))
      [] d.state = 7 -> State7(d)
      [] d.state = 8 -> State8(fetchNextChar(d))
      [] d.state = 801 -> State801(d)
      [] d.state = 9 -> State9(fetchNextChar(d))
      [] d.state = 19 -> State19(fetchNextChar(d))
      [] d.state = 23 -> Accept(d, "SQL")
      [] d.state = 24 -> Accept(d, "SQR")
      [] d.state = 29 -> Accept(d, "COMMA")
      [] d.state = 30 -> Accept(d, "SEM")
      [] d.state = 31 -> Accept(d, "COLON")
      [] d.state = 34 -> Accept(d, "OP")
      [] d.state = 35 -> Accept(d, "CL")
      [] d.state = 42 -> Accept(d, "PLUS")
      [] d.state = 43 -> Accept(d, "MINUS")
      [] d.state = 44 -> Accept(d, "MUL")
      [] d.state = 45 -> Accept(d, "DIV")
      [] d.state = 50 -> Accept(d, "AND")
      [] d.state = 51 -> Accept(d, "OR")
      [] d.state = 52 -> Accept(d, "NOT")
      [] d.state = 53 -> State53(fetchNextChar(d))
      [] d.state = 54 -> Accept(d, "LE")
      [] d.state = 55 -> Accept(d, "EQ")
      [] d.state = 56 -> State56(fetchNextChar(d))
      [] d.state = 57 -> Accept(d, "GE")
      [] d.state = 58 -> Accept(d, "NE")
      [] d.state = 59 -> Accept(d, "DOT")
      [] d.state = 60 -> State60(fetchNextChar(d))
      [] d.state = 61 -> DigitOrError(fetchNextChar(d), 6)
      [] d.state = 62 -> State62(fetchNextChar(d))
      [] d.state = 63 -> DigitOrError(fetchNextChar(d), 64)
      [] d.state = 64 -> DigitOrError(fetchNextChar(d), 7)
      [] d.state = 65 -> State65(d)
      [] d.state = 651 -> State651(fetchNextChar(d))
      [] d.state = 66 -> State66(fetchNextChar(d))
      [] d.state = 67 -> CharOrError(fetchNextChar(d), "-", 1)
      [] d.state = 68 -> CharOrError(fetchNextChar(d), "=", 55)
      [] d.state = 69 -> State69(fetchNextChar(d))
      [] d.state = 70 -> MainPrefix(fetchNextChar(d), "a", 71)
      [] d.state = 71 -> MainPrefix(fetchNextChar(d), "i", 72)
      [] d.state = 72 -> MainPrefix(fetchNextChar(d), "n", 19)
      [] d.state = 73 -> CharOrError(fetchNextChar(d), "@", 74)
      [] d.state = 74 -> CharOrError(fetchNextChar(d), "@", 51)
      [] d.state = 75 -> State75(fetchNextChar(d))
      [] d.state = 76 -> CharOrError(fetchNextChar(d), "&", 77)
      [] d.state = 77 -> CharOrError(fetchNextChar(d), "&", 50)
      [] d.state = 78 -> CharOrError(fetchNextChar(d), "=", 58)
      [] d.state = 79 -> State79(fetchNextChar(d))
      [] d.state = 80 -> State80(fetchNextChar(d))
      [] d.state = 81 -> State81(fetchNextChar(d))
      [] d.state = 811 -> State811(d)

-----------------------------------------------------------------------------
(* getAllTokens *)

MaxBody == 3        \* length of the text that follows the padding
MaxTokens == 6      \* token nodes appended before the model stops a run
MaxRuns == 2        \* calls of getAllTokens in one process

NoToken == [entry |-> newSymbolTableEntry(<<>>, "TK_NOT_FOUND", Zero), lineNum |-> 0]

\* the while (true) of getNextToken, run for at most n iterations
RECURSIVE Iterate(_, _)
Iterate(d, n) ==
    IF d.ret \/ n = 0 THEN d
    ELSE IF n = 1 THEN Step(d)
    ELSE Iterate(Iterate(d, n \div 2), n - (n \div 2))

\* Every iteration but those of state 651 reads a byte of the file or
\* returns, and state 651 repeats itself once the file is exhausted and the
\* cursor has gone round the buffer: a call that has not returned after this
\* many iterations never returns.
Fuel == 2 * Len(file) + 4 * BUFFER_SZ + 64

\* the arguments and the locals of getNextToken at its entry
Locals ==
    [buffer |-> buffer, fwd |-> fwdPtr, off |-> fileOff, eof |-> fileEof,
     flag |-> retractFlag, line |-> lineNumber, tab |-> symTable,
     beginPtr |-> (fwdPtr + 1) % (2 * BUFFER_SZ), state |-> 0, ch |-> NUL,
     lexeme |-> <<>>, tokenNode |-> NoToken, ret |-> FALSE,
     h |-> [hist EXCEPT !.bpos = hist.pos + 1, !.ub = FALSE]]

getNextToken == Iterate(Locals, Fuel)

HistInit ==
    [pos |-> 0, bpos |-> 1, from |-> 0, to |-> 0, coherent |-> TRUE, ub |-> FALSE,
     one |-> FALSE, pend1 |-> FALSE, bad1 |-> FALSE, ok1 |-> FALSE,
     two |-> FALSE, pend2 |-> FALSE, bad2 |-> FALSE, ok2 |-> FALSE, landed |-> 0 - 1,
     spans |-> <<>>, run |-> 1, tk |-> "TK_NOT_FOUND", kinds |-> <<>>]

Rep(c, k) == [i \in 1..k |-> Ord[c]]

RECURSIVE SeqsUpTo(_, _)
SeqsUpTo(S, n) ==
    IF n = 0 THEN {<<>>}
    ELSE LET shorter == SeqsUpTo(S, n - 1)
         IN  shorter \cup {Append(t, c) : t \in shorter, c \in S}

\* texts over the characters that drive the scanner's retracting states
BodyChars == {Ord[c] : c \in {"1", ".", "e", "<", "-", "%", "\n"}}
ShortFiles == SeqsUpTo(BodyChars, MaxBody)

\* blank padding that puts the text at the end of a segment, in front of
\* texts that end in a retraction of one or two characters
BlankPads == {BUFFER_SZ - 2, BUFFER_SZ - 1, 2 * BUFFER_SZ - 2, 2 * BUFFER_SZ - 1}
TailChars == {Ord[c] : c \in {"1", ".", "e", "<"}}
PaddedFiles == {Rep(" ", k) \o b : k \in BlankPads, b \in SeqsUpTo(TailChars, MaxBody)}

\* one lexeme of BUFFER_SZ - 1 letters, of BUFFER_SZ letters, and of more
\* letters than the twin buffer holds
LongFiles == {Rep("a", BUFFER_SZ - 1) \o Str(<<"\n">>),
              Rep("a", BUFFER_SZ) \o Str(<<"\n">>),
              Rep("a", 2 * BUFFER_SZ + 1) \o Str(<<"e", "\n">>)}

\* a record identifier of more characters than the twin buffer holds, and
\* after it the field identifier spelt by its last two letters
WrappedFiles == {Str(<<"#">>) \o Rep("a", 2 * BUFFER_SZ) \o Str(<<"e", " ", "a", "e", "\n">>)}

\* the byte that fills the uninitialised twinBuffer of getAllTokens
StaleBytes == {NUL, Ord["\n"]}

\* the length caps of states 4 and 80, and of states 8 and 81
IdCap == 20
FunCap == 30
ShortLen == 3       \* longest of the short names
MaxDigits == 6      \* longest run of digits that ends a name of letters
MaxOver == 3        \* characters of the longest name beyond its cap

\* names of n characters built of runs: a first character, k letters, digits
Shape(first, letter, digit, k, n) ==
    Str(first) \o Rep(letter, k) \o Rep(digit, n - Len(first) - k)

\* [b-d][2-7]+ and [b-d][a-z]+[2-7]+, the two forms the token table gives
Form1(n) == {Shape(<<"b">>, "c", "2", 0, n)}
Form2(n) == {Shape(<<"b">>, "c", "2", k, n) :
                k \in {j \in 1..(n - 2) : n - 1 - j <= MaxDigits}}
\* [b-d][2-7][b-d]*[2-7]*, the names states 79, 80 and 4 take for ID
Form3(n) == {Shape(<<"b", "2">>, "c", "2", k, n) : k \in 1..(n - 2)}
VariableNames(n) == Form1(n) \cup Form2(n) \cup Form3(n)

\* '_', letters, then digits
FunctionNames(n) == {Shape(<<"_">>, "f", "1", k, n) : k \in 1..(n - 1)}

\* the 25 characters bcbc...b
Alternating == [i \in 1..25 |-> IF i % 2 = 1 THEN Ord["b"] ELSE Ord["c"]]

\* what follows a name: the end of the file, a blank, another token
Tails == {<<>>, Str(<<" ">>), Str(<<";">>)}

NameLengths == (2..ShortLen) \cup {IdCap, IdCap + 1}
OverLengths(cap) == (cap + 1)..(cap + MaxOver)
NameFiles ==
    {name \o t : name \in UNION {VariableNames(n) : n \in NameLengths \cup OverLengths(IdCap)}
                          \cup UNION {FunctionNames(n) : n \in {FunCap} \cup OverLengths(FunCap)}
                          \cup {Alternating},
                 t \in Tails}

\* real literals with an exponent part: 1.25E, a sign or none, two digits
ExponentDigits == {Ord[c] : c \in {"0", "2", "5"}}
RealFiles ==
    {Str(<<"1", ".", "2", "5", "E">>) \o sign \o <<d1, d2>> :
        sign \in {<<>>, Str(<<"+">>), Str(<<"-">>)},
        d1 \in ExponentDigits, d2 \in ExponentDigits}

\* runs of lower-case letters: the reserved words, and prefixes and
\* extensions of reserved words
OtherWords == {Str(w) : w \in {<<"e">>, <<"e", "n">>, <<"e", "n", "d", "x">>,
                                <<"d">>, <<"c">>, <<"i">>, <<"i", "f", "s">>,
                                <<"t", "y", "p">>, <<"a", "s", "s">>,
                                <<"p", "a", "r", "a", "m", "e", "t", "e">>}}
Words == {Keywords[k].word : k \in 1..Len(Keywords)} \cup OtherWords
SecondWords == {Str(w) : w \in {<<"e", "n", "d">>, <<"e", "n">>, <<"i", "f">>}}
WordFiles ==
    Words \cup {w \o Str(<<" ">>) \o w : w \in Words}
          \cup {w \o Str(<<"\n">>) \o v : w \in Words, v \in SecondWords}

\* one '@' that no '@' follows: at the start of the file, after a newline,
\* after a token, and at the end of a segment of the twin buffer
BeforeAt == {<<>>, Str(<<"\n">>), Str(<<"1", " ">>)}
                \cup {Rep(" ", k) : k \in {BUFFER_SZ - 2, BUFFER_SZ - 1, 2 * BUFFER_SZ - 1}}
AfterAt == {<<>>, Str(<<"1">>), Str(<<";">>), Str(<<"e">>), Str(<<" ">>),
            Str(<<"\n", "1">>)}
AtFiles == {b \o Str(<<"@">>) \o a : b \in BeforeAt, a \in AfterAt}

Inputs == (ShortFiles \X StaleBytes)
            \cup ((PaddedFiles \cup LongFiles \cup NameFiles \cup RealFiles
                        \cup WordFiles \cup AtFiles
                \cup WrappedFiles) \X {NUL})

ParserIdle ==
    /\ Grammar = <<>> /\ AutoFirst = <<>> /\ AutoFollow = <<>>
    /\ parseTable = <<>> /\ conflicts = 0 /\ tokens = <<>> /\ inputPtr = 1 /\ theStack = <<>>
    /\ nodes = <<>> /\ hasSyntaxError = FALSE /\ cln = 1 /\ ppc = "idle"
    /\ plast = "none" /\ printed = <<>>
    /\ grammarTxt = <<>> /\ grammarOpens = TRUE
    /\ grammarLoaded = FALSE /\ firstFollowComputed = FALSE
    /\ parseTreeInitialized = FALSE /\ ipc = "idle" /\ passGri = 1 /\ modified = FALSE
    /\ round = 0

\* enum NonTerminal, in declaration order
NonTerminal == <<"program", "otherFunctions", "mainFunction", "stmts", "stmt",
    "function", "input_par", "output_par", "parameter_list", "dataType",
    "remaining_list", "primitiveDatatype", "constructedDatatype",
    "typeDefinitions", "typeDefinition", "declarations", "declaration",
    "otherStmts", "returnStmt", "definetypestmt", "fieldDefinition",
    "fieldDefinitions", "fieldType", "moreFields", "global_or_not",
    "assignmentStmt", "iterativeStmt", "conditionalStmt", "elsePart", "ioStmt",
    "funCallStmt", "option_single_constructed", "outputParameters",
    "inputParameters", "highPrecedenceOperators", "lowPrecedenceOperators",
    "oneExpansion", "moreExpansions", "expPrime", "term", "termPrime", "factor",
    "more_ids", "A", "idList", "relationalOp", "optionalReturn", "var",
    "logicalOp", "arithmeticExpression", "SingleOrRecId", "booleanExpression",
    "NT_NOT_FOUND", "actualOrRedefined">>

NonTerminalValue == [n \in {NonTerminal[i] : i \in 1..Len(NonTerminal)} |->
                        (CHOOSE i \in 1..Len(NonTerminal) : NonTerminal[i] = n) - 1]

\* the rows AutoFirst, AutoFollow and parseTable are allocated with
Rows == {n \in DOMAIN NonTerminalValue : NonTerminalValue[n] < NonTerminalValue["NT_NOT_FOUND"]}

-----------------------------------------------------------------------------
(* The names of the non-terminals *)

\* nonTerminalToString[X] = "<...>", in the order of the assignments
NameAssignments == <<
    <<"program", "<program>">>, <<"otherFunctions", "<otherFunctions>">>,
    <<"mainFunction", "<mainFunction>">>, <<"stmts", "<stmts>">>, <<"stmt", "<stmt>">>,
    <<"function", "<function>">>, <<"input_par", "<input_par>">>,
    <<"output_par", "<output_par>">>, <<"parameter_list", "<parameter_list>">>,
    <<"dataType", "<dataType>">>, <<"remaining_list", "<remaining_list>">>,
    <<"primitiveDatatype", "<primitiveDatatype>">>,
    <<"constructedDatatype", "<constructedDatatype>">>,
    <<"typeDefinitions", "<typeDefinitions>">>,
    <<"actualOrRedefined", "<actualOrRedefined>">>,
    <<"typeDefinition", "<typeDefinition>">>, <<"declarations", "<declarations>">>,
    <<"declaration", "<declaration>">>, <<"otherStmts", "<otherStmts>">>,
    <<"returnStmt", "<returnStmt>">>, <<"definetypestmt", "<definetypestmt>">>,
    <<"fieldDefinition", "<fieldDefinition>">>, <<"fieldType", "<fieldType>">>,
    <<"fieldDefinitions", "<fieldDefinitions>">>, <<"moreFields", "<moreFields>">>,
    <<"global_or_not", "<global_or_not>">>, <<"assignmentStmt", "<assignmentStmt>">>,
    <<"iterativeStmt", "<iterativeStmt>">>, <<"conditionalStmt", "<conditionalStmt>">>,
    <<"elsePart", "<elsePart>">>, <<"ioStmt", "<ioStmt>">>,
    <<"funCallStmt", "<funCallStmt>">>, <<"SingleOrRecId", "<singleOrRecId>">>,
    <<"option_single_constructed", "<option_single_constructed>">>,
    <<"oneExpansion", "<oneExpansion>">>, <<"moreExpansions", "<moreExpansions>">>,
    <<"arithmeticExpression", "<arithmeticExpression>">>, <<"expPrime", "<expPrime>">>,
    <<"term", "<term>">>, <<"termPrime", "<termPrime>">>, <<"factor", "<factor>">>,
    <<"highPrecedenceOperators", "<highPrecedenceOperators>">>,
    <<"lowPrecedenceOperators", "<lowPrecedenceOperators>">>,
    <<"outputParameters", "<outputParameters>">>,
    <<"inputParameters", "<inputParameters>">>, <<"idList", "<idList>">>,
    <<"booleanExpression", "<booleanExpression>">>, <<"var", "<var>">>,
    <<"logicalOp", "<logicalOp>">>, <<"relationalOp", "<relationalOp>">>,
    <<"optionalReturn", "<optionalReturn>">>, <<"more_ids", "<more_ids>">>,
    <<"A", "<A>">> >>

\* char* nonTerminalToString[NT_NOT_FOUND] before it is filled
NoNames == [i \in 0..(NonTerminalValue["NT_NOT_FOUND"] - 1) |-> ""]

\* the array index of the k-th assignment
Named(k) == NonTerminalValue[NameAssignments[k][1]]

\* the assignments from the k-th on: each element holds what the last
\* assignment to it stored; an index that is not below NT_NOT_FOUND is outside
\* the array, which stays as it is
StoreNames(names, k) ==
    [i \in DOMAIN names |->
        IF \E j \in k..Len(NameAssignments) : Named(j) = i
        THEN NameAssignments[CHOOSE j \in k..Len(NameAssignments) :
                                /\ Named(j) = i
                                /\ \A m \in (j + 1)..Len(NameAssignments) : Named(m) # i][2]
        ELSE names[i]]

\* for (i = 0; i < NT_NOT_FOUND; i++) if (!strcmp(nonTerminalToString[i], str)) return i
getNonTerminalFromString(names, str) ==
    IF \E i \in DOMAIN names : names[i] = str
    THEN CHOOSE i \in DOMAIN names : names[i] = str /\ \A j \in DOMAIN names : j < i => names[j] # str
    ELSE NonTerminalValue["NT_NOT_FOUND"]

NoRule == [lhsStr |-> "", symStr |-> "", lhs |-> 0 - 1, sym |-> 0 - 1]

\* before parseInputSourceCode is called
NamesIdle ==
    /\ nonTerminalsInitialized = FALSE /\ nonTerminalToString = NoNames
    /\ ntRule = NoRule /\ npc = "idle"

\* after initializeNonTerminalToString, in a process that goes on
NamesSet ==
    /\ nonTerminalsInitialized = TRUE /\ nonTerminalToString = StoreNames(NoNames, 1)
    /\ ntRule = NoRule /\ npc = "idle"

LexInit ==
    /\ \E input \in Inputs : file = input[1] /\ stale = input[2]
    /\ buffer = [i \in 0..(2 * BUFFER_SZ - 1) |-> stale]
    /\ fwdPtr = 2 * BUFFER_SZ - 1
    /\ fileOff = 0
    /\ fileEof = FALSE
    /\ retractFlag = FALSE
    /\ lineNumber = 1
    /\ symTable = <<>>
    /\ tokenList = <<>>
    /\ lexpc = "lexing"
    /\ hist = HistInit
    /\ ParserIdle
    /\ NamesIdle

\* the state getNextToken leaves behind, and appendTokenNode
Appended(r) ==
    /\ buffer' = r.buffer
    /\ fwdPtr' = r.fwd
    /\ fileOff' = r.off
    /\ fileEof' = r.eof
    /\ retractFlag' = r.flag
    /\ lineNumber' = r.line
    /\ symTable' = r.tab
    /\ tokenList' = appendTokenNode(tokenList, r.tokenNode)
    /\ lexpc' = IF r.tokenNode.entry.tokenType = "DOLLAR" THEN "done" ELSE "lexing"
    /\ hist' = [r.h EXCEPT !.spans = Append(@, <<r.h.from, r.h.to>>),
                          !.kinds = Append(@, r.h.tk)]

Returns(r) == r.ret /\ ~r.h.ub
Overflows(r) == r.ret /\ r.h.ub
Diverges(r) == ~r.ret

\* one iteration of the loop of getAllTokens: a call of getNextToken that
\* returns, and appendTokenNode
NextToken ==
    /\ lexpc = "lexing"
    /\ Len(tokenList) < MaxTokens
    /\ Returns(getNextToken)
    /\ Appended(getNextToken)
    /\ UNCHANGED <<file, stale, parseVars>>

\* a call of getNextToken that never returns
NextTokenDiverges ==
    /\ lexpc = "lexing"
    /\ Len(tokenList) < MaxTokens
    /\ Diverges(getNextToken)
    /\ lexpc' = "diverged"
    /\ UNCHANGED <<file, stale, buffer, fwdPtr, fileOff, fileEof, retractFlag,
                   lineNumber, symTable, tokenList, hist, parseVars>>

\* a call of getNextToken that copies BUFFER_SZ or more bytes into
\* lexeme[BUFFER_SZ] (and into the BUFFER_SZ bytes of the entry): the
\* behaviour is undefined, the build either goes on with the bytes it copied
\* or is killed
NextTokenOverflows ==
    /\ lexpc = "lexing"
    /\ Len(tokenList) < MaxTokens
    /\ Overflows(getNextToken)
    /\ \/ Appended(getNextToken)
       \/ /\ lexpc' = "aborted"
          /\ hist' = [hist EXCEPT !.ub = TRUE]
          /\ UNCHANGED <<buffer, fwdPtr, fileOff, fileEof, retractFlag,
                         lineNumber, symTable, tokenList>>
    /\ UNCHANGED <<file, stale, parseVars>>

\* option 2, 3 or 4 of the menu chosen again: the file is opened again and
\* getAllTokens starts with a new twinBuffer, cursor, line number, table and
\* list; the global retractFlag is what the last run left (history: ok1 is
\* kept, a retraction of the process set the flag and a fetch consulted it)
LexAgain ==
    /\ lexpc = "done"
    /\ hist.run < MaxRuns
    /\ stale' \in {b \in StaleBytes : <<file, b>> \in Inputs}
    /\ buffer' = [i \in 0..(2 * BUFFER_SZ - 1) |-> stale']
    /\ fwdPtr' = 2 * BUFFER_SZ - 1
    /\ fileOff' = 0
    /\ fileEof' = FALSE
    /\ lineNumber' = 1
    /\ symTable' = <<>>
    /\ tokenList' = <<>>
    /\ lexpc' = "lexing"
    /\ hist' = [HistInit EXCEPT !.run = hist.run + 1, !.ok1 = hist.ok1]
    /\ UNCHANGED <<file, retractFlag, parseVars>>

LexNext == NextToken \/ NextTokenDiverges \/ NextTokenOverflows \/ LexAgain

SpecLex == LexInit /\ [][LexNext]_vars

-----------------------------------------------------------------------------
(* Properties of the lexer *)

\* the bytes of the file between two logical positions, as a C string
Consumed(from, to) == CStr([k \in 1..(to - from + 1) |-> FileByte(from + k - 1)])

LengthExceededKinds == {"ID_LENGTH_EXC", "FUN_LENGTH_EXC"}

\* C1: after any sequence of getNextToken calls on one symbol table, no two
\* entries of the table have the same lexeme.
C1_NoTwoEntriesShareALexeme ==
    \A i, j \in 1..Len(symTable) :
        i # j => symTable[i].lexeme # symTable[j].lexeme

\* a lexeme was scanned twice and the second token node reuses the entry
C1_Witness ==
    \E i, j \in 1..Len(tokenList) :
        /\ i < j
        /\ tokenList[i].entry.tokenType # "DOLLAR"
        /\ tokenList[i].entry = tokenList[j].entry
        /\ Cardinality({k \in 1..Len(symTable) :
                            symTable[k].lexeme = tokenList[i].entry.lexeme}) = 1

\* C2: the loop of getAllTokens terminates for every finite input, and the
\* list it returns is in source order and holds exactly one DOLLAR node, its
\* last one.  Stated on finite runs: no call of getNextToken fails to
\* return, and a finished list has that shape.
C2_LoopEndsWithOneDollarLast ==
    /\ lexpc # "diverged"
    /\ lexpc = "done" =>
        /\ Len(tokenList) >= 1
        /\ \A i \in 1..Len(tokenList) :
            (tokenList[i].entry.tokenType = "DOLLAR") <=> (i = Len(tokenList))
        /\ \A i \in 1..(Len(tokenList) - 1) :
            hist.spans[i][2] < hist.spans[i + 1][1]

\* C3: the lexeme stored for a token that is not of a length-exceeded kind
\* equals the bytes of the input consumed for it, whatever its length and
\* position in the twin buffer.  Stated for the runs in which every fetch
\* returned the byte of the file at the cursor's position and no copy went
\* past the end of lexeme[].
C3_LexemeIsTheConsumedBytes ==
    (hist.coherent /\ ~hist.ub) =>
        \A i \in 1..Len(tokenList) :
            tokenList[i].entry.tokenType \notin LengthExceededKinds =>
                tokenList[i].entry.lexeme = Consumed(hist.spans[i][1], hist.spans[i][2])

\* C4: a one-character retraction onto the last index of a segment sets
\* retractFlag and the next fetchNextChar does not refill; no byte is
\* skipped and no chunk is loaded twice in a run whose retractions are all
\* of one character.
C4_OneCharRetractionKeepsTheSegment ==
    /\ ~hist.bad1
    /\ ~hist.two => hist.coherent

\* a one-character retraction landed on the last index of a segment, the
\* next fetch left the other segment alone, and the scan reached the end
C4_Witness ==
    /\ hist.ok1
    /\ ~hist.two
    /\ hist.coherent
    /\ lexpc = "done"
    /\ Len(file) >= BUFFER_SZ

\* C5: after a two-character retraction that crosses a segment boundary the
\* segment just refilled is not refilled again before the cursor re-enters
\* it, whether the cursor landed on the last index of a segment or on the
\* one before.
C5_TwoCharRetractionKeepsTheSegment == ~hist.bad2

-----------------------------------------------------------------------------
(* parserDef.h *)

INIT_CHILD_CAPACITY == 10

\* SymbolUnit
Terminal(t) == [isNonTerminal |-> FALSE, value |-> t]
NonTerm(n) == [isNonTerminal |-> TRUE, value |-> n]

-----------------------------------------------------------------------------
(* FIRST and FOLLOW sets, parse table *)

existsInFirstFollow(lst, tmpkey) == \E i \in 1..Len(lst) : lst[i] = tmpkey

insertFirstFollowNode(lst, tk) == Append(lst, tk)

\* for each node of src from the k-th on: skip EPS when asked to, insert
\* the token into res unless it is there
RECURSIVE InsertNew(_, _, _, _)
InsertNew(res, src, k, skipEps) ==
    IF k > Len(src) THEN res
    ELSE IF (skipEps /\ src[k] = "EPS") \/ existsInFirstFollow(res, src[k])
    THEN InsertNew(res, src, k + 1, skipEps)
    ELSE InsertNew(insertFirstFollowNode(res, src[k]), src, k + 1, skipEps)

\* the loop of getFirstOfRhs from the i-th symbol on, entered with hasEps
RECURSIVE FirstOfRhsFrom(_, _, _)
FirstOfRhsFrom(grhs, i, res) ==
    IF i > Len(grhs) THEN InsertNew(res, <<"EPS">>, 1, FALSE)
    ELSE IF ~grhs[i].isNonTerminal THEN InsertNew(res, <<grhs[i].value>>, 1, FALSE)
    ELSE IF existsInFirstFollow(AutoFirst[grhs[i].value], "EPS")
    THEN FirstOfRhsFrom(grhs, i + 1, InsertNew(res, AutoFirst[grhs[i].value], 1, TRUE))
    ELSE InsertNew(res, AutoFirst[grhs[i].value], 1, TRUE)

getFirstOfRhs(grhs) == FirstOfRhsFrom(grhs, 1, <<>>)

\* the same walk that stops at the first non-terminal
FirstOfRuleFrom_stop(First, currLhs, rhs, i) ==
    IF i > Len(rhs)
    THEN [First EXCEPT ![currLhs] = InsertNew(@, <<"EPS">>, 1, FALSE)]
    ELSE IF ~rhs[i].isNonTerminal
    THEN [First EXCEPT ![currLhs] = InsertNew(@, <<rhs[i].value>>, 1, FALSE)]
    ELSE [First EXCEPT ![currLhs] = InsertNew(@, First[rhs[i].value], 1, TRUE)]

\* the while (rhsItr && hasEps) of computeFirstSets for one rule, from the
\* i-th symbol of its right-hand side on
RECURSIVE FirstOfRuleFrom(_, _, _, _)
FirstOfRuleFrom(First, currLhs, rhs, i) ==
    IF i > Len(rhs)
    THEN [First EXCEPT ![currLhs] = InsertNew(@, <<"EPS">>, 1, FALSE)]
    ELSE IF ~rhs[i].isNonTerminal
    THEN [First EXCEPT ![currLhs] = InsertNew(@, <<rhs[i].value>>, 1, FALSE)]
    ELSE IF existsInFirstFollow(First[rhs[i].value], "EPS")
    THEN FirstOfRuleFrom([First EXCEPT ![currLhs] = InsertNew(@, First[rhs[i].value], 1, TRUE)],
                         currLhs, rhs, i + 1)
    ELSE [First EXCEPT ![currLhs] = InsertNew(@, First[rhs[i].value], 1, TRUE)]

\* for (gri = ...; gri < numOfRules; ++gri) of computeFirstSets
RECURSIVE FirstPass(_, _, _)
FirstPass(First, G, gri) ==
    IF gri > Len(G) THEN First
    ELSE FirstPass(FirstOfRuleFrom(First, G[gri].lhs, G[gri].rhs, 1), G, gri + 1)

\* while (modified): a pass that inserted nothing ends the loop
RECURSIVE FirstLoop(_, _, _)
FirstLoop(First, passed, G) ==
    IF passed = First THEN First ELSE FirstLoop(passed, FirstPass(passed, G, 1), G)

EmptySets == [n \in Rows |-> <<>>]

computeFirstSets(G) == FirstLoop(EmptySets, FirstPass(EmptySets, G, 1), G)

\* the insertions without FOLLOW of the left-hand side
FollowOfOccurrence_noLhs(Follow, currLhs, nt, fOfNxtT, isLast) ==
    [Follow EXCEPT ![nt] = InsertNew(@, fOfNxtT, 1, TRUE)]

\* the insertions without the test for EPS
FollowOfOccurrence_keepEps(Follow, currLhs, nt, fOfNxtT, isLast) ==
    IF existsInFirstFollow(fOfNxtT, "EPS") \/ isLast
    THEN [Follow EXCEPT ![nt] = InsertNew(InsertNew(@, fOfNxtT, 1, FALSE),
                                          Follow[currLhs], 1, FALSE)]
    ELSE [Follow EXCEPT ![nt] = InsertNew(@, fOfNxtT, 1, FALSE)]

\* the FOLLOW insertions of computeFollowSets for the non-terminal nt met in
\* a rule of currLhs, fOfNxtT being FIRST of what follows it
FollowOfOccurrence(Follow, currLhs, nt, fOfNxtT, isLast) ==
    IF existsInFirstFollow(fOfNxtT, "EPS") \/ isLast
    THEN [Follow EXCEPT ![nt] = InsertNew(InsertNew(@, fOfNxtT, 1, TRUE),
                                          Follow[currLhs], 1, FALSE)]
    ELSE [Follow EXCEPT ![nt] = InsertNew(@, fOfNxtT, 1, TRUE)]

\* while (rhsItr) of computeFollowSets for one rule
RECURSIVE FollowOfRuleFrom(_, _, _, _)
FollowOfRuleFrom(Follow, currLhs, rhs, i) ==
    IF i > Len(rhs) THEN Follow
    ELSE IF ~rhs[i].isNonTerminal THEN FollowOfRuleFrom(Follow, currLhs, rhs, i + 1)
    ELSE FollowOfRuleFrom(
            FollowOfOccurrence(Follow, currLhs, rhs[i].value,
                               getFirstOfRhs(SubSeq(rhs, i + 1, Len(rhs))), i = Len(rhs)),
            currLhs, rhs, i + 1)

RECURSIVE FollowPass(_, _, _)
FollowPass(Follow, G, gri) ==
    IF gri > Len(G) THEN Follow
    ELSE FollowPass(FollowOfRuleFrom(Follow, G[gri].lhs, G[gri].rhs, 1), G, gri + 1)

RECURSIVE FollowLoop(_, _, _)
FollowLoop(Follow, passed, G) ==
    IF passed = Follow THEN Follow ELSE FollowLoop(passed, FollowPass(passed, G, 1), G)

\* DOLLAR is inserted into FOLLOW(program) before the loop
DollarInProgram == [EmptySets EXCEPT !["program"] = insertFirstFollowNode(@, "DOLLAR")]

computeFollowSets(G) == FollowLoop(DollarInProgram, FollowPass(DollarInProgram, G, 1), G)

\* parseTable[nt][tk], 0 standing for NULL; a rule is its index in Grammar
Cell(pt, nt, tk) == IF <<nt, tk>> \in DOMAIN pt THEN pt[<<nt, tk>>] ELSE 0

\* a table in which the rule written first stays in its cell
RECURSIVE WriteCells_keep(_, _, _, _, _)
WriteCells_keep(t, lhs, tks, k, gri) ==
    IF k > Len(tks) THEN t
    ELSE WriteCells_keep(
            [table |-> t.table @@ (<<lhs, tks[k]>> :> gri),
             conflicts |-> IF Cell(t.table, lhs, tks[k]) # 0
                           THEN t.conflicts + 1 ELSE t.conflicts],
            lhs, tks, k + 1, gri)

\* parseTable[lhs][tk] = tmpRule for every tk of tks from the k-th on; t is
\* the table and the count of the diagnostics printed on a cell not NULL
RECURSIVE WriteCells(_, _, _, _, _)
WriteCells(t, lhs, tks, k, gri) ==
    IF k > Len(tks) THEN t
    ELSE WriteCells(
            [table |-> (<<lhs, tks[k]>> :> gri) @@ t.table,
             conflicts |-> IF Cell(t.table, lhs, tks[k]) # 0
                           THEN t.conflicts + 1 ELSE t.conflicts],
            lhs, tks, k + 1, gri)

\* the body without the cells of FOLLOW(lhs)
AddRule_firstOnly(t, lhs, fOfRhs, gri) == WriteCells(t, lhs, fOfRhs, 1, gri)

\* the body of the loop of addRulesToParseTable for rule gri
AddRule(t, lhs, fOfRhs, gri) ==
    IF existsInFirstFollow(fOfRhs, "EPS")
    THEN WriteCells(WriteCells(t, lhs, fOfRhs, 1, gri), lhs, AutoFollow[lhs], 1, gri)
    ELSE WriteCells(t, lhs, fOfRhs, 1, gri)

RECURSIVE AddRulesFrom(_, _, _)
AddRulesFrom(t, G, gri) ==
    IF gri > Len(G) THEN t
    ELSE AddRulesFrom(AddRule(t, G[gri].lhs, getFirstOfRhs(G[gri].rhs), gri), G, gri + 1)

addRulesToParseTable(G) == AddRulesFrom([table |-> <<>>, conflicts |-> 0], G, 1)

-----------------------------------------------------------------------------
(* Stack and parse tree *)

pushStack(stack, node) == <<node>> \o stack
\* a pop that takes two elements
popStack_two(stack) == IF Len(stack) < 2 THEN <<>> ELSE Tail(Tail(stack))

popStack(stack) == IF stack = <<>> THEN stack ELSE Tail(stack)
peekStack(stack) == IF stack = <<>> THEN 0 ELSE Head(stack)
isStackEmpty(stack) == stack = <<>>

\* a node as createParseNode leaves it; a pointer is a sequence of length 0
\* (NULL) or 1; parent and at are history: the node it was inserted under
\* and the input position at which it was expanded
createParseNode ==
    [symbol |-> <<>>, ste |-> <<>>, children |-> <<>>,
     capacity |-> INIT_CHILD_CAPACITY, lineNumber |-> 0 - 1, parent |-> 0, at |-> 0]

\* the node made for one symbol of the rule in the expansion branch
NodeFor(symbol, parent) ==
    [createParseNode EXCEPT !.symbol = <<symbol>>, !.parent = parent]

insertChild_first(parent, child) ==
    [parent EXCEPT !.capacity = IF Len(parent.children) = parent.capacity THEN 2 * @ ELSE @,
                   !.children = <<child>> \o @]

\* insertChild on the node record of the parent, child being a node id
insertChild(parent, child) ==
    [parent EXCEPT !.capacity = IF Len(parent.children) = parent.capacity THEN 2 * @ ELSE @,
                   !.children = Append(@, child)]

\* the symbol the root node is given
StartSymbol_other == NonTerm("mainFunction")

StartSymbol == NonTerm("program")

\* currentNode->lineNumber = inputPtr->lineNum, without an entry
Visited(node, tokenNode) == [node EXCEPT !.lineNumber = tokenNode.lineNum]

Matched_noEntry(node, tokenNode) == Visited(node, tokenNode)

\* the assignments of the terminal-match branch
Matched(node, tokenNode) ==
    [node EXCEPT !.lineNumber = tokenNode.lineNum, !.ste = <<tokenNode.entry>>]

\* the synthetic entry of the epsilon branch
EpsilonEntry == newSymbolTableEntry(Str(<<"E", "P", "S", "I", "L", "O", "N">>), "EPS", Zero)

\* while (trItr): a node per symbol of the rule, inserted under node id cur;
\* ns is the node array
RECURSIVE AddChildren(_, _, _, _)
AddChildren(ns, cur, rhs, i) ==
    IF i > Len(rhs) THEN ns
    ELSE AddChildren(
            [Append(ns, NodeFor(rhs[i], cur)) EXCEPT ![cur] = insertChild(@, Len(ns) + 1)],
            cur, rhs, i + 1)

\* for (chi = size - 1; chi >= 0; chi--) pushStack(theStack, children[chi])
RECURSIVE PushChildren(_, _, _)
PushChildren(stack, children, chi) ==
    IF chi < 1 THEN stack
    ELSE PushChildren(pushStack(stack, children[chi]), children, chi - 1)

\* while (!isStackEmpty(theStack)) popStack(theStack)
RECURSIVE DrainStack(_)
DrainStack(stack) == IF isStackEmpty(stack) THEN stack ELSE DrainStack(popStack(stack))

\* while (inputPtr && inputPtr->entry->tokenType != DOLLAR) inputPtr = inputPtr->next
RECURSIVE DrainInput(_, _)
DrainInput(list, ptr) ==
    IF ptr > Len(list) \/ list[ptr].entry.tokenType = "DOLLAR" THEN ptr
    ELSE DrainInput(list, ptr + 1)

\* history: node n has an ancestor labelled nt that was expanded at input
\* position at
RECURSIVE ExpandedAbove(_, _, _, _)
ExpandedAbove(ns, n, nt, at) ==
    IF ns[n].parent = 0 THEN FALSE
    ELSE \/ ns[ns[n].parent].symbol[1].value = nt /\ ns[ns[n].parent].at = at
         \/ ExpandedAbove(ns, ns[n].parent, nt, at)

RECURSIVE inorderTraverse(_, _)
RECURSIVE TraverseFrom(_, _, _)

\* a traversal that prints a node in front of all its children
inorderTraverse_rootFirst(ns, curr) == <<curr>> \o TraverseFrom(ns, ns[curr].children, 1)

\* the rows printed for the subtree of node curr: the first child's, the
\* node's, then the other children's
inorderTraverse(ns, curr) ==
    (IF Len(ns[curr].children) > 0 THEN inorderTraverse(ns, ns[curr].children[1]) ELSE <<>>)
        \o <<curr>> \o TraverseFrom(ns, ns[curr].children, 2)

\* for (chi = ...; chi < curr->size; ++chi) inorderTraverse(curr->children[chi], curr, fp)
TraverseFrom(ns, kids, chi) ==
    IF chi > Len(kids) THEN <<>>
    ELSE inorderTraverse(ns, kids[chi]) \o TraverseFrom(ns, kids, chi + 1)

-----------------------------------------------------------------------------
(* parseTokens, one action per pass of its loop *)

MaxRules == 4       \* rules of a grammar
MaxInput == 3       \* tokens in front of the end-of-input token

\* the rules grammars are made of: a small LL(1) grammar (1 to 4), a rule
\* with two terminals, a left-recursive rule, and two rules that use EPS in
\* front of another symbol
RulePool == <<
    [lhs |-> "program", rhs |-> <<NonTerm("otherFunctions"), NonTerm("mainFunction")>>],
    [lhs |-> "otherFunctions", rhs |-> <<Terminal("END"), NonTerm("otherFunctions")>>],
    [lhs |-> "otherFunctions", rhs |-> <<Terminal("EPS")>>],
    [lhs |-> "mainFunction", rhs |-> <<Terminal("MAIN")>>],
    [lhs |-> "program", rhs |-> <<Terminal("MAIN"), Terminal("END")>>],
    [lhs |-> "program", rhs |-> <<NonTerm("program"), Terminal("MAIN")>>],
    [lhs |-> "program", rhs |-> <<Terminal("EPS"), NonTerm("program")>>],
    [lhs |-> "mainFunction", rhs |-> <<Terminal("EPS"), Terminal("MAIN")>>] >>

\* the rules of a pool with index in S, in the order of the pool
Pick(pool, S) == [k \in 1..Cardinality(S) |->
                    pool[CHOOSE i \in S : Cardinality({j \in S : j < i}) = k - 1]]

GrammarsOf(pool) == {Pick(pool, S) : S \in {T \in SUBSET (1..Len(pool)) :
                                        Cardinality(T) >= 1 /\ Cardinality(T) <= MaxRules}}

\* the rules S -> A S, A -> a, S -> EPS with program for the start symbol S,
\* mainFunction for A and MAIN for a
ExamplePool == <<
    [lhs |-> "program", rhs |-> <<NonTerm("mainFunction"), NonTerm("program")>>],
    [lhs |-> "mainFunction", rhs |-> <<Terminal("MAIN")>>],
    [lhs |-> "program", rhs |-> <<Terminal("EPS")>>] >>

\* a rule with terminals one after the other, as the rules of statements have
SequencePool == <<
    [lhs |-> "program", rhs |-> <<Terminal("MAIN"), Terminal("END"), Terminal("MAIN"), Terminal("END")>>] >>

Grammars == GrammarsOf(RulePool) \cup GrammarsOf(ExamplePool) \cup GrammarsOf(SequencePool)

\* the entry the lexer makes for a token of each kind
TokenKinds == {"MAIN", "END", "COMMENT", "LEXICAL_ERROR", "ID_LENGTH_EXC", "FUN_LENGTH_EXC"}

EntryOf == [k \in TokenKinds \cup {"DOLLAR"} |->
    newSymbolTableEntry(
        CASE k = "MAIN" -> Str(<<"_", "m", "a", "i", "n">>)
          [] k = "END" -> Str(<<"e", "n", "d">>)
          [] k = "COMMENT" -> Str(<<"%">>)
          [] k = "LEXICAL_ERROR" -> Str(<<"$">>)
          [] k = "ID_LENGTH_EXC" -> Str(<<"b", "2", ".", ".", ".">>)
          [] k = "FUN_LENGTH_EXC" -> Str(<<"_", "f", ".", ".", ".">>)
          [] k = "DOLLAR" -> <<>>,
        k, Zero)]

\* a token list: the i-th token is on line i
ListOf(kinds) == [i \in 1..Len(kinds) |-> newTokenNode(EntryOf[kinds[i]], i)]

\* the lists of up to MaxInput tokens without the two length-exceeded kinds,
\* and the shorter lists of all kinds
TokenLists == {ListOf(Append(ks, "DOLLAR")) :
                 ks \in SeqsUpTo(TokenKinds \ {"ID_LENGTH_EXC", "FUN_LENGTH_EXC"}, MaxInput)
                            \cup SeqsUpTo(TokenKinds, MaxInput - 1)}

LexerIdle ==
    /\ file = <<>> /\ stale = NUL /\ buffer = <<>> /\ fwdPtr = 2 * BUFFER_SZ - 1
    /\ fileOff = 0 /\ fileEof = FALSE /\ retractFlag = FALSE /\ lineNumber = 1
    /\ symTable = <<>> /\ tokenList = <<>> /\ lexpc = "idle" /\ hist = HistInit

\* parseInputSourceCode up to the call of parseTokens
ParseInit ==
    /\ Grammar \in Grammars
    /\ AutoFirst = computeFirstSets(Grammar)
    /\ AutoFollow = computeFollowSets(Grammar)
    /\ parseTable = addRulesToParseTable(Grammar).table
    /\ conflicts = addRulesToParseTable(Grammar).conflicts
    /\ tokens \in TokenLists
    /\ inputPtr = 1
    /\ theStack = <<>>
    /\ nodes = <<>>
    /\ hasSyntaxError = FALSE
    /\ cln = 1
    /\ ppc = "start"
    /\ plast = "none" /\ printed = <<>>
    /\ grammarTxt = Grammar /\ grammarOpens = TRUE
    /\ grammarLoaded = TRUE /\ firstFollowComputed = TRUE
    /\ parseTreeInitialized = TRUE /\ ipc = "parse" /\ passGri = 1 /\ modified = FALSE
    /\ round = 1
    /\ LexerIdle
    /\ NamesSet

Fixed == <<Grammar, AutoFirst, AutoFollow, parseTable, conflicts, tokens, printed, lexVars,
           initVars>>

\* the tree, the root symbol, the stack with the root pushed
ParseStart ==
    /\ ppc = "start"
    /\ nodes' = <<NodeFor(StartSymbol, 0)>>
    /\ theStack' = pushStack(<<>>, 1)
    /\ inputPtr' = 1
    /\ cln' = 1
    /\ ppc' = "loop"
    /\ plast' = "start"
    /\ UNCHANGED <<Fixed, hasSyntaxError>>

InLoop == ppc = "loop" /\ ~isStackEmpty(theStack) /\ inputPtr <= Len(tokens)

Kind == tokens[inputPtr].entry.tokenType
Top == nodes[peekStack(theStack)].symbol[1]
Skipped == Kind = "COMMENT" \/ TokenValue[Kind] >= TokenValue["LEXICAL_ERROR"]

\* a comment or an error token is passed over
SkipToken ==
    /\ InLoop /\ Skipped
    /\ hasSyntaxError' = (hasSyntaxError \/ Kind # "COMMENT")
    /\ inputPtr' = inputPtr + 1
    /\ cln' = tokens[inputPtr].lineNum
    /\ plast' = "skip"
    /\ UNCHANGED <<Fixed, theStack, nodes, ppc>>

EpsilonLeaf ==
    /\ InLoop /\ ~Skipped
    /\ ~Top.isNonTerminal /\ Top.value = "EPS"
    /\ nodes' = [nodes EXCEPT ![peekStack(theStack)] =
                    [Visited(@, tokens[inputPtr]) EXCEPT !.ste = <<EpsilonEntry>>]]
    /\ theStack' = popStack(theStack)
    /\ cln' = tokens[inputPtr].lineNum
    /\ plast' = "epsilon"
    /\ UNCHANGED <<Fixed, inputPtr, hasSyntaxError, ppc>>

TerminalMatch ==
    /\ InLoop /\ ~Skipped
    /\ ~Top.isNonTerminal /\ Top.value # "EPS" /\ Top.value = Kind
    /\ nodes' = [nodes EXCEPT ![peekStack(theStack)] = Matched(@, tokens[inputPtr])]
    /\ theStack' = popStack(theStack)
    /\ inputPtr' = inputPtr + 1
    /\ cln' = tokens[inputPtr].lineNum
    /\ plast' = "match"
    /\ UNCHANGED <<Fixed, hasSyntaxError, ppc>>

TerminalMismatch ==
    /\ InLoop /\ ~Skipped
    /\ ~Top.isNonTerminal /\ Top.value # "EPS" /\ Top.value # Kind
    /\ hasSyntaxError' = TRUE
    /\ nodes' = [nodes EXCEPT ![peekStack(theStack)] = Visited(@, tokens[inputPtr])]
    /\ theStack' = popStack(theStack)
    /\ cln' = tokens[inputPtr].lineNum
    /\ plast' = "mismatch"
    /\ UNCHANGED <<Fixed, inputPtr, ppc>>

\* a parser that looks into a table without rules
Rule_none == Cell(<<>>, Top.value, Kind)

\* the rule of the cell of the non-terminal on top and the token, 0 for NULL
Rule == Cell(parseTable, Top.value, Kind)

\* a recovery that synchronises on FIRST instead of FOLLOW
Synchronizes_onFirst == existsInFirstFollow(AutoFirst[Top.value], Kind)

\* the test of the recovery: the token is in FOLLOW of the non-terminal on top
Synchronizes == existsInFirstFollow(AutoFollow[Top.value], Kind)

\* no rule in the cell: pop on a token of FOLLOW, otherwise pass the token
\* over, and pop when the input ends with it
NonTerminalMismatch ==
    /\ InLoop /\ ~Skipped
    /\ Top.isNonTerminal /\ Rule = 0
    /\ hasSyntaxError' = TRUE
    /\ IF Synchronizes
       THEN /\ nodes' = [nodes EXCEPT ![peekStack(theStack)] = Visited(@, tokens[inputPtr])]
            /\ theStack' = popStack(theStack)
            /\ inputPtr' = inputPtr
       ELSE /\ nodes' = nodes
            /\ inputPtr' = inputPtr + 1
            /\ theStack' = IF inputPtr + 1 > Len(tokens) THEN popStack(theStack) ELSE theStack
    /\ cln' = tokens[inputPtr].lineNum
    /\ plast' = "miss"
    /\ UNCHANGED <<Fixed, ppc>>

\* history: the non-terminal on top is expanded under itself without any
\* input in between; the table gives the same rule again, and again
Recurs == ExpandedAbove(nodes, peekStack(theStack), Top.value, inputPtr)

\* the node array after the expansion of node cur by rule gri
Expanded(ns, cur, gri) ==
    AddChildren([ns EXCEPT ![cur] = [Visited(@, tokens[inputPtr]) EXCEPT !.at = inputPtr]],
                cur, Grammar[gri].rhs, 1)

Expand ==
    /\ InLoop /\ ~Skipped
    /\ Top.isNonTerminal /\ Rule # 0 /\ ~Recurs
    /\ nodes' = Expanded(nodes, peekStack(theStack), Rule)
    /\ theStack' = PushChildren(popStack(theStack), nodes'[peekStack(theStack)].children,
                                Len(nodes'[peekStack(theStack)].children))
    /\ cln' = tokens[inputPtr].lineNum
    /\ plast' = "expand"
    /\ UNCHANGED <<Fixed, inputPtr, hasSyntaxError, ppc>>

\* the loop never ends: every pass from here on is an expansion
ExpandForever ==
    /\ InLoop /\ ~Skipped
    /\ Top.isNonTerminal /\ Rule # 0 /\ Recurs
    /\ ppc' = "diverged"
    /\ plast' = "expand"
    /\ UNCHANGED <<Fixed, inputPtr, theStack, nodes, hasSyntaxError, cln>>

\* the success test without its condition on the input
Success_stackOnly == ~hasSyntaxError /\ isStackEmpty(theStack)

Success ==
    /\ ~hasSyntaxError
    /\ isStackEmpty(theStack)
    /\ (inputPtr > Len(tokens) \/ tokens[inputPtr].entry.tokenType = "DOLLAR")

\* after the loop: the success test, or the flag and the two draining loops
ParseReturn ==
    /\ ppc = "loop"
    /\ (isStackEmpty(theStack) \/ inputPtr > Len(tokens))
    /\ IF Success
       THEN UNCHANGED <<hasSyntaxError, theStack, inputPtr>>
       ELSE /\ hasSyntaxError' = TRUE
            /\ theStack' = DrainStack(theStack)
            /\ inputPtr' = DrainInput(tokens, inputPtr)
    /\ ppc' = "returned"
    /\ plast' = IF Success THEN "success" ELSE "drain"
    /\ UNCHANGED <<Fixed, nodes, cln>>

\* printParseTree(parseTree, opFile), called when parseTokens left the flag
\* false: a row per node in the order of inorderTraverse
printParseTree ==
    /\ ppc = "returned"
    /\ ~hasSyntaxError
    /\ printed' = inorderTraverse(nodes, 1)
    /\ ppc' = "printed"
    /\ UNCHANGED <<Grammar, AutoFirst, AutoFollow, parseTable, conflicts, tokens, inputPtr,
                   theStack, nodes, hasSyntaxError, cln, plast, lexVars, initVars>>

ParseNext ==
    \/ ParseStart
    \/ SkipToken
    \/ EpsilonLeaf
    \/ TerminalMatch
    \/ TerminalMismatch
    \/ NonTerminalMismatch
    \/ Expand
    \/ ExpandForever
    \/ ParseReturn
    \/ printParseTree

SpecParse == ParseInit /\ [][ParseNext]_vars

\* the loop of parseTokens runs on until it ends
SpecParseFair == SpecParse /\ WF_vars(ParseNext)

-----------------------------------------------------------------------------
(* Properties of the parser *)

\* addRulesToParseTable printed no "Multiple defined entries" diagnostic
NoConflict == conflicts = 0

\* the right-hand side of a rule holds EPS only as its only symbol; the
\* rules of grammar.txt are written so, readGrammar does not check it
EpsAlone ==
    \A r \in 1..Len(Grammar) : \A i \in 1..Len(Grammar[r].rhs) :
        Grammar[r].rhs[i] = Terminal("EPS") => Len(Grammar[r].rhs) = 1

\* neither comments nor error tokens in the list
Clean == \A i \in 1..Len(tokens) :
            /\ tokens[i].entry.tokenType # "COMMENT"
            /\ TokenValue[tokens[i].entry.tokenType] < TokenValue["LEXICAL_ERROR"]

\* Derivability, from the rules alone: D holds <<N, i, j>> when N derives
\* the tokens i .. j-1; EPS stands for the empty string.
SymDerives(D, sym, i, j) ==
    IF sym.isNonTerminal THEN <<sym.value, i, j>> \in D
    ELSE IF sym.value = "EPS" THEN i = j
    ELSE j = i + 1 /\ tokens[i].entry.tokenType = sym.value

RECURSIVE SeqDerives(_, _, _, _, _)
SeqDerives(D, rhs, k, i, j) ==
    IF k > Len(rhs) THEN i = j
    ELSE \E m \in i..j : SymDerives(D, rhs[k], i, m) /\ SeqDerives(D, rhs, k + 1, m, j)

DerivedOnce(D) ==
    D \cup {t \in {Grammar[r].lhs : r \in 1..Len(Grammar)}
                    \X (1..Len(tokens)) \X (1..Len(tokens)) :
              /\ t[2] <= t[3]
              /\ \E r \in 1..Len(Grammar) :
                    Grammar[r].lhs = t[1] /\ SeqDerives(D, Grammar[r].rhs, 1, t[2], t[3])}

RECURSIVE DerivedFrom(_, _)
DerivedFrom(D, next) == IF next = D THEN D ELSE DerivedFrom(next, DerivedOnce(next))

\* the tokens in front of the end-of-input token derive from program
Derivable == <<"program", 1, Len(tokens)>> \in DerivedFrom({}, DerivedOnce({}))

Returned == ppc = "returned"

\* C6: for every token list that ends with the end-of-input token and every
\* loaded grammar, parseTokens terminates and returns a tree whose root is
\* labelled program, and the stack is empty on return.  Stated on finite
\* runs: the loop never reaches a pass from which it expands for ever, and a
\* return has that shape.
C6_AlwaysReturnsATree ==
    /\ ppc # "diverged"
    /\ Returned => nodes[1].symbol = <<NonTerm("program")>> /\ isStackEmpty(theStack)

\* C6, amended: for a grammar whose parse table was built without a
\* conflict and that uses EPS only as a whole right-hand side, parseTokens
\* terminates with a tree rooted at program and an empty stack.
C6_ReturnsATreeForLL1 ==
    (NoConflict /\ EpsAlone) =>
        <>(Returned /\ nodes[1].symbol = <<NonTerm("program")>> /\ isStackEmpty(theStack))

\* a parse with errors of such a grammar returned after draining its stack
C6_Witness ==
    /\ NoConflict /\ EpsAlone
    /\ Returned /\ plast = "drain" /\ hasSyntaxError
    /\ nodes[1].symbol = <<NonTerm("program")>> /\ isStackEmpty(theStack)
    /\ Len(nodes) > 1

RECURSIVE Leaves(_, _), LeavesOf(_, _, _)
Leaves(ns, n) == IF ns[n].children = <<>> THEN <<n>> ELSE LeavesOf(ns, ns[n].children, 1)
LeavesOf(ns, kids, i) ==
    IF i > Len(kids) THEN <<>> ELSE Leaves(ns, kids[i]) \o LeavesOf(ns, kids, i + 1)

IsEpsilonLeaf(node) == node.symbol = <<Terminal("EPS")>>
IsTerminalLeaf(node) == node.children = <<>> /\ ~node.symbol[1].isNonTerminal

\* the entries bound to the leaves other than epsilon leaves, left to right
RECURSIVE LeafEntries(_, _, _)
LeafEntries(ns, leaves, i) ==
    IF i > Len(leaves) THEN <<>>
    ELSE (IF IsEpsilonLeaf(ns[leaves[i]]) THEN <<>> ELSE <<ns[leaves[i]].ste>>)
            \o LeafEntries(ns, leaves, i + 1)

\* the entries of the tokens other than comments and the end-of-input token
RECURSIVE InputEntries(_, _)
InputEntries(list, i) ==
    IF i > Len(list) THEN <<>>
    ELSE (IF list[i].entry.tokenType \in {"COMMENT", "DOLLAR"} THEN <<>>
          ELSE <<<<list[i].entry>>>>) \o InputEntries(list, i + 1)

\* C8: after a parse that returns with the flag false, the entries bound to
\* the non-epsilon leaves of the tree, left to right, are the entries of the
\* input tokens with the comments and the end-of-input token removed.
C8_LeavesSpellTheInput ==
    (Returned /\ ~hasSyntaxError) =>
        LeafEntries(nodes, Leaves(nodes, 1), 1) = InputEntries(tokens, 1)

\* an error-free parse of two different tokens with a comment between them
C8_Witness ==
    /\ Returned /\ ~hasSyntaxError
    /\ Len(InputEntries(tokens, 1)) >= 2
    /\ InputEntries(tokens, 1)[1] # InputEntries(tokens, 1)[2]
    /\ \E i \in 1..Len(tokens) : tokens[i].entry.tokenType = "COMMENT"
    /\ LeafEntries(nodes, Leaves(nodes, 1), 1) = InputEntries(tokens, 1)

RECURSIVE SymbolsOf(_, _, _)
SymbolsOf(ns, kids, i) ==
    IF i > Len(kids) THEN <<>> ELSE ns[kids[i]].symbol \o SymbolsOf(ns, kids, i + 1)

\* node n was expanded by the rule of the cell of its non-terminal and the
\* token that was the lookahead then
ExpandedByTheCell(ns, n) ==
    /\ ns[n].symbol[1].isNonTerminal
    /\ ns[n].at \in 1..Len(tokens)
    /\ Cell(parseTable, ns[n].symbol[1].value, tokens[ns[n].at].entry.tokenType) # 0
    /\ Grammar[Cell(parseTable, ns[n].symbol[1].value,
                    tokens[ns[n].at].entry.tokenType)].lhs = ns[n].symbol[1].value
    /\ SymbolsOf(ns, ns[n].children, 1) =
          Grammar[Cell(parseTable, ns[n].symbol[1].value,
                       tokens[ns[n].at].entry.tokenType)].rhs

\* C9: in every tree returned, a node with a child is labelled by a
\* non-terminal N and the symbols of its children, left to right, are the
\* right-hand side of a rule of N: the rule in the cell of N and the token
\* that was the lookahead when N was expanded.
C9_ChildrenAreTheRuleOfTheCell ==
    Returned => \A n \in 1..Len(nodes) :
                    nodes[n].children # <<>> => ExpandedByTheCell(nodes, n)

\* a returned tree of two levels, with a node of two different children
C9_Witness ==
    /\ Returned
    /\ \E n \in 2..Len(nodes) :
          /\ Len(nodes[n].children) >= 1
          /\ Len(nodes[nodes[n].parent].children) = 2
          /\ nodes[nodes[nodes[n].parent].children[1]].symbol #
                nodes[nodes[nodes[n].parent].children[2]].symbol
    /\ \A n \in 1..Len(nodes) : nodes[n].children # <<>> => ExpandedByTheCell(nodes, n)

\* C10: in every tree returned, with or without syntax errors, every leaf
\* labelled by a terminal references the entry of the token that matched it
\* or is an epsilon leaf with the synthetic entry EPSILON; none is left
\* without an entry.
C10_EveryTerminalLeafHasAnEntry ==
    Returned => \A n \in 1..Len(nodes) :
                    IsTerminalLeaf(nodes[n]) =>
                        IF IsEpsilonLeaf(nodes[n]) THEN nodes[n].ste = <<EpsilonEntry>>
                        ELSE nodes[n].ste # <<>>

\* from the input pointer to the end-of-input token there are only comments
RECURSIVE OnlyCommentsLeft(_, _)
OnlyCommentsLeft(list, ptr) ==
    \/ ptr > Len(list)
    \/ list[ptr].entry.tokenType = "DOLLAR"
    \/ list[ptr].entry.tokenType = "COMMENT" /\ OnlyCommentsLeft(list, ptr + 1)

ErrorKinds == {"LEXICAL_ERROR", "ID_LENGTH_EXC", "FUN_LENGTH_EXC"}

\* C11: comment tokens are skipped and never cause the flag to be set,
\* wherever they occur, the comments that follow the token that empties the
\* stack included; a token of one of the three error kinds is skipped and
\* sets the flag.
C11_CommentsNeverSetTheFlag ==
    [][/\ (InLoop /\ Kind = "COMMENT") =>
            /\ hasSyntaxError' = hasSyntaxError
            /\ inputPtr' = inputPtr + 1 /\ theStack' = theStack /\ nodes' = nodes
       /\ (InLoop /\ Kind \in ErrorKinds) =>
            /\ hasSyntaxError'
            /\ inputPtr' = inputPtr + 1 /\ theStack' = theStack /\ nodes' = nodes
       /\ (ppc = "loop" /\ isStackEmpty(theStack) /\ ~hasSyntaxError
             /\ OnlyCommentsLeft(tokens, inputPtr)) => ~hasSyntaxError']_vars

-----------------------------------------------------------------------------
(* parseInputSourceCode called again and again from the menu loop of the    *)
(* driver: readGrammar, initializeAndComputeFirstAndFollow and              *)
(* initializeParseTable, the two fixed-point loops one rule at a time       *)

MaxRounds == 2      \* calls of parseInputSourceCode in one process

\* the pool of the parser and two rules in which a non-terminal is followed
\* by one that derives the empty string
InitRulePool == RulePool \o <<
    [lhs |-> "program", rhs |-> <<NonTerm("mainFunction"), NonTerm("otherFunctions")>>],
    [lhs |-> "mainFunction", rhs |-> <<NonTerm("otherFunctions"), NonTerm("otherFunctions")>>] >>

InitGrammars == GrammarsOf(InitRulePool)

\* the process before the first call of parseInputSourceCode
DriverInit ==
    /\ \/ grammarOpens = TRUE /\ grammarTxt \in InitGrammars
       \/ grammarOpens = FALSE /\ grammarTxt = <<>>
    /\ Grammar = <<>> /\ AutoFirst = <<>> /\ AutoFollow = <<>>
    /\ parseTable = <<>> /\ conflicts = 0
    /\ grammarLoaded = FALSE /\ firstFollowComputed = FALSE
    /\ parseTreeInitialized = FALSE
    /\ ipc = "readGrammar" /\ passGri = 1 /\ modified = FALSE /\ round = 1
    /\ tokens = <<>> /\ inputPtr = 1 /\ theStack = <<>> /\ nodes = <<>>
    /\ hasSyntaxError = FALSE /\ cln = 1 /\ ppc = "idle" /\ plast = "none"
    /\ printed = <<>>
    /\ LexerIdle
    /\ NamesSet

Parsing_but_names == <<tokens, inputPtr, theStack, nodes, hasSyntaxError, cln, ppc, plast,
                        printed>>

Parsing == <<tokens, inputPtr, theStack, nodes, hasSyntaxError, cln, ppc, plast, printed,
             lexVars, nameVars>>

\* Grammar[numOfRules++] = gRule for every line of the file
readGrammar_again ==
    /\ ipc = "readGrammar"
    /\ Grammar' = IF grammarOpens THEN Grammar \o grammarTxt ELSE Grammar
    /\ grammarLoaded' = TRUE
    /\ ipc' = "firstFollow"
    /\ UNCHANGED <<AutoFirst, AutoFollow, parseTable, conflicts, grammarTxt, grammarOpens,
                   firstFollowComputed, parseTreeInitialized, passGri, modified, round,
                   Parsing>>

readGrammar ==
    /\ ipc = "readGrammar"
    /\ Grammar' = IF grammarLoaded \/ ~grammarOpens THEN Grammar
                   ELSE Grammar \o grammarTxt
    /\ grammarLoaded' = TRUE
    /\ ipc' = "firstFollow"
    /\ UNCHANGED <<AutoFirst, AutoFollow, parseTable, conflicts, grammarTxt, grammarOpens,
                   firstFollowComputed, parseTreeInitialized, passGri, modified, round,
                   Parsing>>

\* initializeAndComputeFirstAndFollow up to the call of computeFirstSets
initializeAndComputeFirstAndFollow ==
    /\ ipc = "firstFollow"
    /\ IF firstFollowComputed
       THEN /\ ipc' = "parseTable"
            /\ UNCHANGED <<AutoFirst, AutoFollow, passGri, modified>>
       ELSE /\ AutoFirst' = EmptySets
            /\ AutoFollow' = EmptySets
            /\ passGri' = 1
            /\ modified' = FALSE
            /\ ipc' = "first"
    /\ firstFollowComputed' = TRUE
    /\ UNCHANGED <<Grammar, parseTable, conflicts, grammarTxt, grammarOpens, grammarLoaded,
                   parseTreeInitialized, round, Parsing>>

\* computeFirstSets: the body of its for loop for rule passGri
FirstOfRule ==
    /\ ipc = "first" /\ passGri <= Len(Grammar)
    /\ AutoFirst' = FirstOfRuleFrom(AutoFirst, Grammar[passGri].lhs, Grammar[passGri].rhs, 1)
    /\ modified' = (modified \/ AutoFirst' # AutoFirst)
    /\ passGri' = passGri + 1
    /\ UNCHANGED <<Grammar, AutoFollow, parseTable, conflicts, grammarTxt, grammarOpens, grammarLoaded,
                   firstFollowComputed, parseTreeInitialized, ipc, round, Parsing>>

\* computeFirstSets: the end of a pass; after the last one computeFollowSets
\* begins and inserts DOLLAR into FOLLOW(program)
FirstPassEnds ==
    /\ ipc = "first" /\ passGri > Len(Grammar)
    /\ IF modified
       THEN UNCHANGED <<AutoFollow, ipc>>
       ELSE /\ AutoFollow' = [AutoFollow EXCEPT
                                !["program"] = insertFirstFollowNode(@, "DOLLAR")]
            /\ ipc' = "follow"
    /\ passGri' = 1
    /\ modified' = FALSE
    /\ UNCHANGED <<Grammar, AutoFirst, parseTable, conflicts, grammarTxt, grammarOpens, grammarLoaded,
                   firstFollowComputed, parseTreeInitialized, round, Parsing>>

\* computeFollowSets: the body of its for loop for rule passGri
FollowOfRule ==
    /\ ipc = "follow" /\ passGri <= Len(Grammar)
    /\ AutoFollow' = FollowOfRuleFrom(AutoFollow, Grammar[passGri].lhs,
                                      Grammar[passGri].rhs, 1)
    /\ modified' = (modified \/ AutoFollow' # AutoFollow)
    /\ passGri' = passGri + 1
    /\ UNCHANGED <<Grammar, AutoFirst, parseTable, conflicts, grammarTxt, grammarOpens, grammarLoaded,
                   firstFollowComputed, parseTreeInitialized, ipc, round, Parsing>>

\* computeFollowSets: the end of a pass
FollowPassEnds ==
    /\ ipc = "follow" /\ passGri > Len(Grammar)
    /\ ipc' = IF modified THEN "follow" ELSE "parseTable"
    /\ passGri' = 1
    /\ modified' = FALSE
    /\ UNCHANGED <<Grammar, AutoFirst, AutoFollow, parseTable, conflicts, grammarTxt, grammarOpens,
                   grammarLoaded, firstFollowComputed, parseTreeInitialized, round,
                   Parsing>>

\* initializeParseTable: every cell NULL, then addRulesToParseTable
initializeParseTable ==
    /\ ipc = "parseTable"
    /\ IF parseTreeInitialized
       THEN UNCHANGED <<parseTable, conflicts>>
       ELSE /\ parseTable' = addRulesToParseTable(Grammar).table
            /\ conflicts' = addRulesToParseTable(Grammar).conflicts
    /\ parseTreeInitialized' = TRUE
    /\ ipc' = "parse"
    /\ UNCHANGED <<Grammar, AutoFirst, AutoFollow, grammarTxt, grammarOpens, grammarLoaded,
                   firstFollowComputed, passGri, modified, round, Parsing>>

\* parseTokens and the output are done; the menu is answered with 3 or 4 again
NextCall ==
    /\ ipc = "parse" /\ round < MaxRounds
    /\ round' = round + 1
    /\ ipc' = "readGrammar"
    /\ UNCHANGED <<Grammar, AutoFirst, AutoFollow, parseTable, conflicts, grammarTxt, grammarOpens,
                   grammarLoaded, firstFollowComputed, parseTreeInitialized, passGri,
                   modified, Parsing>>

DriverNext ==
    \/ readGrammar
    \/ initializeAndComputeFirstAndFollow
    \/ FirstOfRule
    \/ FirstPassEnds
    \/ FollowOfRule
    \/ FollowPassEnds
    \/ initializeParseTable
    \/ NextCall

SpecInit == DriverInit /\ [][DriverNext]_vars

\* the loops run on until they end
SpecInitFair == SpecInit /\ WF_vars(DriverNext)

-----------------------------------------------------------------------------
(* Properties of the FIRST and FOLLOW sets and of the parse table *)

Elems(lst) == {lst[i] : i \in 1..Len(lst)}

\* the non-terminals that derive the empty string, from the rules alone
NullableSym(S, sym) == IF sym.isNonTerminal THEN sym.value \in S ELSE sym.value = "EPS"

NullableOnce(G, S) ==
    S \cup {G[r].lhs : r \in {q \in 1..Len(G) :
                                \A i \in 1..Len(G[q].rhs) : NullableSym(S, G[q].rhs[i])}}

RECURSIVE NullableFrom(_, _, _)
NullableFrom(G, S, next) == IF next = S THEN S ELSE NullableFrom(G, next, NullableOnce(G, next))

Nullable(G) == NullableFrom(G, {}, NullableOnce(G, {}))

\* the tokens that begin a string derived from the symbols rhs[i..], given
\* the tokens F of the non-terminals
RECURSIVE BeginOfSeq(_, _, _, _)
BeginOfSeq(F, NS, rhs, i) ==
    IF i > Len(rhs) THEN {}
    ELSE IF ~rhs[i].isNonTerminal
    THEN (IF rhs[i].value = "EPS" THEN BeginOfSeq(F, NS, rhs, i + 1) ELSE {rhs[i].value})
    ELSE F[rhs[i].value] \cup
            (IF rhs[i].value \in NS THEN BeginOfSeq(F, NS, rhs, i + 1) ELSE {})

NullableSeq(NS, rhs, i) == \A k \in i..Len(rhs) : NullableSym(NS, rhs[k])

BeginOnce(G, F) ==
    [n \in Rows |-> F[n] \cup UNION {BeginOfSeq(F, Nullable(G), G[r].rhs, 1) :
                                        r \in {q \in 1..Len(G) : G[q].lhs = n}}]

RECURSIVE BeginFrom(_, _, _)
BeginFrom(G, F, next) == IF next = F THEN F ELSE BeginFrom(G, next, BeginOnce(G, next))

\* the least fixed point of the FIRST rules
LeastFirst(G) ==
    [n \in Rows |-> BeginFrom(G, [m \in Rows |-> {}], BeginOnce(G, [m \in Rows |-> {}]))[n]
                        \cup (IF n \in Nullable(G) THEN {"EPS"} ELSE {})]

FirstDone == ipc \in {"follow", "parseTable", "parse"}

FirstTokens(G) == BeginFrom(G, [m \in Rows |-> {}], BeginOnce(G, [m \in Rows |-> {}]))

\* what the rules ask FOLLOW of the non-terminal at rhs[i] of rule r to
\* hold, Fo being the FOLLOW sets
AskedOf(G, Fo, r, i) ==
    BeginOfSeq(FirstTokens(G), Nullable(G), G[r].rhs, i + 1)
        \cup (IF NullableSeq(Nullable(G), G[r].rhs, i + 1) THEN Fo[G[r].lhs] ELSE {})

Occurrences(G) == {o \in (1..Len(G)) \X (1..3) :
                        o[2] <= Len(G[o[1]].rhs) /\ G[o[1]].rhs[o[2]].isNonTerminal}

FollowOnce(G, Fo) ==
    [n \in Rows |-> Fo[n] \cup UNION {AskedOf(G, Fo, o[1], o[2]) :
                                        o \in {q \in Occurrences(G) :
                                                  G[q[1]].rhs[q[2]].value = n}}]

RECURSIVE FollowFrom(_, _, _)
FollowFrom(G, Fo, next) == IF next = Fo THEN Fo ELSE FollowFrom(G, next, FollowOnce(G, next))

DollarOnly == [n \in Rows |-> IF n = "program" THEN {"DOLLAR"} ELSE {}]

\* the least FOLLOW sets with end-of-input in FOLLOW(program)
LeastFollow(G) == FollowFrom(G, DollarOnly, FollowOnce(G, DollarOnly))

FollowDone == ipc \in {"parseTable", "parse"}

FollowSets == [n \in Rows |-> Elems(AutoFollow[n])]

C14_NoEpsilonInFollow ==
    /\ \A n \in DOMAIN AutoFollow : ~existsInFirstFollow(AutoFollow[n], "EPS")
    /\ ipc \in {"follow", "parseTable", "parse"} =>
            existsInFirstFollow(AutoFollow["program"], "DOLLAR")

\* in the middle of a pass of computeFollowSets, past a rule in which a
\* non-terminal is followed by symbols whose FIRST holds the epsilon marker
C14_Witness ==
    /\ ipc = "follow" /\ modified
    /\ \E r \in 1..(passGri - 1) :
          /\ Len(Grammar[r].rhs) = 2
          /\ Grammar[r].rhs[1].isNonTerminal
          /\ existsInFirstFollow(getFirstOfRhs(SubSeq(Grammar[r].rhs, 2, 2)), "EPS")
          /\ Len(AutoFollow[Grammar[r].rhs[1].value]) >= 2
    /\ \A n \in DOMAIN AutoFollow : ~existsInFirstFollow(AutoFollow[n], "EPS")

TableDone == ipc = "parse"

\* rule r belongs in the cell of its left-hand side and token t
BelongsIn(r, t) ==
    \/ t # "EPS" /\ existsInFirstFollow(getFirstOfRhs(Grammar[r].rhs), t)
    \/ /\ existsInFirstFollow(getFirstOfRhs(Grammar[r].rhs), "EPS")
       /\ existsInFirstFollow(AutoFollow[Grammar[r].lhs], t)

\* the cell of n and t holds the rule that belongs in it, or is empty when
\* none does
CellAsStated(n, t) ==
    /\ \A r \in 1..Len(Grammar) :
          Grammar[r].lhs = n => (Cell(parseTable, n, t) = r <=> BelongsIn(r, t))
    /\ (\A r \in 1..Len(Grammar) : Grammar[r].lhs = n => ~BelongsIn(r, t))
          => Cell(parseTable, n, t) = 0

Columns == {Token[i] : i \in 1..Len(Token)} \ {"TK_NOT_FOUND"}

\* C15: after initializeParseTable on a grammar without conflicts, for every
\* non-terminal N and token kind t, the column of the epsilon marker
\* included, the cell of N and t holds the rule N -> alpha if and only if t
\* is in FIRST(alpha) and is not epsilon, or epsilon is in FIRST(alpha) and
\* t is in FOLLOW(N); every other cell is empty.
C15_CellsAreFirstAndFollow ==
    (TableDone /\ NoConflict /\ EpsAlone) =>
        \A n \in Rows : \A t \in Columns : CellAsStated(n, t)

\* C16: a second call of readGrammar, initializeAndComputeFirstAndFollow or
\* initializeParseTable in the same process leaves the rule array and its
\* count, the FIRST and FOLLOW sets and the parse table as the first call
\* left them.
C16_SecondCallsChangeNothing ==
    [][round > 1 => UNCHANGED <<Grammar, AutoFirst, AutoFollow, parseTable>>]_vars

\* the three functions have been called a second time on a grammar of
\* several rules with a table that is not empty
C16_Witness ==
    /\ round = 2 /\ ipc = "parse"
    /\ Len(Grammar) >= 2 /\ Grammar = grammarTxt
    /\ AutoFirst = computeFirstSets(Grammar)
    /\ AutoFollow = computeFollowSets(Grammar)
    /\ parseTable # <<>>
    /\ parseTable = addRulesToParseTable(Grammar).table

-----------------------------------------------------------------------------
(* Identifiers and their length caps *)

\* the nodes of the list that carry a token of that kind
NodesOf(kind) == {i \in 1..Len(tokenList) : tokenList[i].entry.tokenType = kind}

\* the file starts with the name and the list holds one token of the kind:
\* its first node, with the name as lexeme
EmittedAsOne(name, kind) ==
    NodesOf(kind) = {1} /\ tokenList[1].entry.lexeme = name

StartsWith(name) == \E t \in Tails : file = name \o t

\* C17: a variable identifier of exactly 20 characters is emitted as one ID
\* token whose lexeme is the whole identifier; one of 21 characters yields an
\* ID_LENGTH_EXC token and no ID token.
C17_VariableIdentifierCap ==
    lexpc = "done" =>
        /\ \A name \in VariableNames(IdCap) :
              StartsWith(name) => EmittedAsOne(name, "ID")
        /\ \A name \in VariableNames(IdCap + 1) :
              StartsWith(name) =>
                  NodesOf("ID_LENGTH_EXC") # {} /\ NodesOf("ID") = {}

\* C18: a function identifier of exactly 30 characters, the '_' counted, is
\* emitted as one FUNID token whose lexeme is the whole identifier; one of 31
\* characters yields a FUN_LENGTH_EXC token and no FUNID token.
C18_FunctionIdentifierCap ==
    lexpc = "done" =>
        /\ \A name \in FunctionNames(FunCap) :
              StartsWith(name) => EmittedAsOne(name, "FUNID")
        /\ \A name \in FunctionNames(FunCap + 1) :
              StartsWith(name) =>
                  NodesOf("FUN_LENGTH_EXC") # {} /\ NodesOf("FUNID") = {}

\* C19: on the 25 characters bcbc...b the lexer emits exactly one
\* ID_LENGTH_EXC token, whose lexeme is the first 20 characters followed by
\* "...", and the next token starts at the first character after the name.
C19_LongNameIsCutOnce ==
    (lexpc = "done" /\ StartsWith(Alternating)) =>
        /\ EmittedAsOne(SubSeq(Alternating, 1, IdCap) \o Str(<<".", ".", ".">>),
                        "ID_LENGTH_EXC")
        /\ Len(tokenList) >= 2
        /\ hist.spans[2][1] = Len(Alternating)
                                + (IF file = Alternating \o Str(<<" ">>) THEN 2 ELSE 1)

\* C20: every string of at most 20 characters that matches [b-d][2-7]+ or
\* [b-d][a-z]+[2-7]+ and is followed by a character that cannot extend it is
\* emitted as exactly one ID token whose lexeme is the whole string.
C20_EveryNameOfTheFormsIsAnId ==
    lexpc = "done" =>
        \A n \in NameLengths \ {IdCap + 1} :
            \A name \in Form1(n) \cup Form2(n) :
                StartsWith(name) => EmittedAsOne(name, "ID")

-----------------------------------------------------------------------------
(* Literals, keywords, line numbers *)

\* the file is digits, '.', and then fewer than two digits up to its end
IncompleteReal(f) ==
    \E k \in 2..Len(f) :
        /\ f[k] = Ord["."] /\ Len(f) - k <= 1
        /\ \A i \in 1..Len(f) : i # k => isdigit(f[i])

\* C21: when the input ends after digits and a '.' followed by no digit or
\* one digit, the lexer emits a LEXICAL_ERROR token for the incomplete real
\* literal and no RNUM token.
C21_IncompleteRealAtEndIsAnError ==
    (lexpc = "done" /\ IncompleteReal(file)) =>
        /\ \E i \in NodesOf("LEXICAL_ERROR") : tokenList[i].entry.lexeme = file
        /\ NodesOf("RNUM") = {}

\* the signed decimal value of the two digits that end a real literal
SignedExponent(f) ==
    LET v == (f[Len(f) - 1] - Ord["0"]) * 10 + (f[Len(f)] - Ord["0"])
    IN  IF f[Len(f) - 2] = Ord["-"] THEN 0 - v ELSE v

\* C22: for a real literal with an exponent part the power of ten applied to
\* the value is the signed decimal value of the two exponent digits: E02
\* gives 2, E-15 gives -15.
C22_ExponentIsTheSignedTwoDigits ==
    (lexpc = "done" /\ file \in RealFiles) =>
        /\ EmittedAsOne(file, "RNUM")
        /\ tokenList[1].entry.numericValue.e = SignedExponent(file)

\* the places where a maximal run of lower-case letters starts, and the run
RunStarts(f) == {i \in 1..Len(f) : islower(f[i]) /\ (i = 1 \/ ~islower(f[i - 1]))}
RunFrom(f, i) ==
    SubSeq(f, i, CHOOSE j \in i..Len(f) :
                    /\ \A k \in i..j : islower(f[k])
                    /\ (j = Len(f) \/ ~islower(f[j + 1])))

\* the kind the token table gives a run of lower-case letters
KindOfWord(w) ==
    IF \E k \in 1..Len(Keywords) : Keywords[k].word = w
    THEN Keywords[CHOOSE k \in 1..Len(Keywords) : Keywords[k].word = w].tk
    ELSE "FIELDID"

\* the k-th run of the file, in file order
NthRunStart(f, k) ==
    CHOOSE i \in RunStarts(f) : Cardinality({j \in RunStarts(f) : j < i}) = k - 1

NewlinesBefore(p) == Cardinality({q \in 1..(p - 1) : FileByte(q) = Ord["\n"]})

\* C24: the line number of every token node is 1 plus the number of newline
\* characters before the first character of the token; a comment token has
\* the line of its '%', and the newline that ends it is counted once.
C24_LineIsNewlinesBeforePlusOne ==
    \A i \in 1..Len(tokenList) :
        tokenList[i].lineNum = 1 + NewlinesBefore(hist.spans[i][1])

\* the position of the '@' of the file
AtPos == CHOOSE p \in 1..Len(file) : file[p] = Ord["@"]

\* the first position after p that holds neither a blank nor a newline
NextStart(p) ==
    CHOOSE q \in (p + 1)..(Len(file) + 1) :
        \A r \in (p + 1)..q :
            (FileByte(r) = Ord[" "] \/ FileByte(r) = Ord["\n"]) <=> r < q

\* C25: an '@' that no '@' follows gives exactly one LEXICAL_ERROR token with
\* lexeme "@" and the line number of the '@'; the character after it is not
\* consumed, lexing goes on with it, and the list ends with the end-of-input
\* token.
C25_LoneAtIsOneError ==
    (lexpc = "done" /\ file \in AtFiles) =>
        /\ Cardinality(NodesOf("LEXICAL_ERROR")) = 1
        /\ \A i \in NodesOf("LEXICAL_ERROR") :
              /\ tokenList[i].entry.lexeme = Str(<<"@">>)
              /\ tokenList[i].lineNum = 1 + NewlinesBefore(AtPos)
              /\ hist.spans[i] = <<AtPos, AtPos>>
              /\ hist.spans[i + 1][1] = NextStart(AtPos)
        /\ NodesOf("DOLLAR") = {Len(tokenList)}

\* the '@' is the last byte of a segment of the twin buffer and a token
\* follows it
C25_Witness ==
    /\ lexpc = "done" /\ file \in AtFiles
    /\ AtPos % BUFFER_SZ = 0
    /\ \E i \in NodesOf("LEXICAL_ERROR") :
          /\ tokenList[i].entry.lexeme = Str(<<"@">>)
          /\ tokenList[i + 1].entry.tokenType = "NUM"
          /\ hist.spans[i + 1][1] = AtPos + 1

-----------------------------------------------------------------------------
(* Parses of the empty input and of the example grammar *)

\* the rule of the cell of program and the end-of-input token
RuleAtEnd == Cell(parseTable, "program", "DOLLAR")

\* the tree is the root program with one child, an epsilon leaf
RootAndEpsilonLeaf ==
    /\ Len(nodes) = 2
    /\ nodes[1].symbol = <<NonTerm("program")>> /\ nodes[1].children = <<2>>
    /\ IsEpsilonLeaf(nodes[2]) /\ nodes[2].children = <<>>

\* C26: for a token list that holds only the end-of-input token: when the
\* cell of program and end-of-input selects the rule program -> EPS,
\* parseTokens returns flag false and the tree is the root program with a
\* single epsilon leaf; when program cannot derive the empty string it
\* returns flag true.
C26_EmptyInput ==
    (Returned /\ Len(tokens) = 1) =>
        /\ (RuleAtEnd # 0 /\ Grammar[RuleAtEnd].rhs = <<Terminal("EPS")>>)
              => (~hasSyntaxError /\ RootAndEpsilonLeaf)
        /\ "program" \notin Nullable(Grammar) => hasSyntaxError

\* the empty input was accepted by the rule program -> EPS of the example
\* grammar
C26_Witness ==
    /\ Returned /\ Len(tokens) = 1 /\ EpsAlone
    /\ RuleAtEnd # 0 /\ Grammar[RuleAtEnd].rhs = <<Terminal("EPS")>>
    /\ Len(Grammar) = 3
    /\ ~hasSyntaxError /\ RootAndEpsilonLeaf

\* node n is a program node over a chain of k expansions by
\* program -> mainFunction program that ends in a program node whose only
\* child is an epsilon leaf
RECURSIVE Chain(_, _)
Chain(n, k) ==
    /\ nodes[n].symbol = <<NonTerm("program")>>
    /\ IF k = 0
       THEN /\ Len(nodes[n].children) = 1
            /\ IsEpsilonLeaf(nodes[nodes[n].children[1]])
            /\ nodes[nodes[n].children[1]].children = <<>>
       ELSE /\ Len(nodes[n].children) = 2
            /\ nodes[nodes[n].children[1]].symbol = <<NonTerm("mainFunction")>>
            /\ Len(nodes[nodes[n].children[1]].children) = 1
            /\ nodes[nodes[nodes[n].children[1]].children[1]].symbol = <<Terminal("MAIN")>>
            /\ nodes[nodes[nodes[n].children[1]].children[1]].children = <<>>
            /\ Chain(nodes[n].children[2], k - 1)

ThreeMains == ListOf(<<"MAIN", "MAIN", "MAIN", "DOLLAR">>)

\* C27: for the grammar S -> A S, A -> a, S -> EPS with start symbol S the
\* sets are FIRST(S) = {a, EPS} and FOLLOW(S) = {end-of-input}, and the parse
\* of a a a succeeds with three S nodes with children (A, S) in a chain that
\* ends in an S node whose only child is an epsilon leaf.  S is program, A is
\* mainFunction, a is MAIN.
C27_ExampleGrammar ==
    Grammar = ExamplePool =>
        /\ Elems(AutoFirst["program"]) = {"MAIN", "EPS"}
        /\ Elems(AutoFollow["program"]) = {"DOLLAR"}
        /\ (Returned /\ tokens = ThreeMains) => (~hasSyntaxError /\ Chain(1, 3))

\* the parse of a a a with the example grammar has returned
C27_Witness ==
    /\ Grammar = ExamplePool /\ tokens = ThreeMains /\ Returned
    /\ ~hasSyntaxError /\ Chain(1, 3) /\ Len(nodes) = 11

-----------------------------------------------------------------------------
(* The grammar file *)

\* C28: when the grammar file cannot be opened, readGrammar prints a
\* diagnostic and the process terminates: no FIRST and FOLLOW computation, no
\* construction of the parse table and no parse is carried out on an empty
\* grammar.
C28_NoGrammarNoComputation ==
    ~grammarOpens =>
        /\ ~firstFollowComputed /\ ~parseTreeInitialized
        /\ ipc \notin {"first", "follow", "parseTable", "parse"}

-----------------------------------------------------------------------------
(* Names longer than their cap *)

\* the first cap characters of the name and "..."
Cut(name, cap) == SubSeq(name, 1, cap) \o Str(<<".", ".", ".">>)

\* the name at the start of the file gave one token of the kind, with the
\* cut name as lexeme, and the second token starts right after the name
CutOnce(name, cap, kind) ==
    /\ EmittedAsOne(Cut(name, cap), kind)
    /\ Len(tokenList) >= 2
    /\ hist.spans[2][1] = Len(name) + (IF file = name \o Str(<<" ">>) THEN 2 ELSE 1)

\* C29: for every variable identifier longer than 20 characters, whatever
\* letters b..d and digits 2..7 follow the 20th character, the lexer emits
\* exactly one token for it, of kind ID_LENGTH_EXC with the first 20
\* characters and "..." as lexeme; no token of another kind (ID, ASSIGNOP,
\* NUM) is made from its characters and the next token starts at the first
\* character after the identifier.
C29_LongVariableNameIsOneToken ==
    lexpc = "done" =>
        \A n \in OverLengths(IdCap) : \A name \in Form1(n) \cup Form3(n) :
            StartsWith(name) =>
                /\ CutOnce(name, IdCap, "ID_LENGTH_EXC")
                /\ NodesOf("ID") = {} /\ NodesOf("ASSIGNOP") = {} /\ NodesOf("NUM") = {}

\* C30: for every function identifier longer than 30 characters the lexer
\* emits exactly one FUN_LENGTH_EXC token with the first 30 characters and
\* "..." as lexeme and consumes all remaining letters and digits of the
\* identifier: the next token starts at the first character that is neither
\* a letter nor a digit.
C30_LongFunctionNameIsOneToken ==
    lexpc = "done" =>
        \A n \in OverLengths(FunCap) : \A name \in FunctionNames(n) :
            StartsWith(name) => CutOnce(name, FunCap, "FUN_LENGTH_EXC")

-----------------------------------------------------------------------------
(* Error recovery of parseTokens *)

\* the loop looks at a token that is not the end of the input, the stack top
\* is a non-terminal and the cell of the two is empty
TableMiss ==
    /\ InLoop /\ ~Skipped
    /\ Top.isNonTerminal /\ Kind # "DOLLAR" /\ Rule = 0

\* C31: when the stack top is a non-terminal N, the current token T is not the
\* end of the input and the cell [N][kind of T] is empty, the parser sets the
\* error flag and either pops N and keeps the input position (the kind of T
\* is in FOLLOW(N)) or passes over T and keeps the stack (otherwise); the loop
\* repeats this pass by pass.
C31_TableMissPopsOrSkips ==
    [][TableMiss =>
        /\ hasSyntaxError'
        /\ IF Kind \in Elems(AutoFollow[Top.value])
           THEN theStack' = Tail(theStack) /\ inputPtr' = inputPtr
           ELSE theStack' = theStack /\ inputPtr' = inputPtr + 1]_vars

\* a token was passed over by the recovery and the next one, of FOLLOW of the
\* same non-terminal, is about to pop it
C31_Witness ==
    /\ plast = "miss" /\ inputPtr > 1 /\ hasSyntaxError
    /\ TableMiss
    /\ Kind \in Elems(AutoFollow[Top.value])
    /\ tokens[inputPtr - 1].entry.tokenType \notin Elems(AutoFollow[Top.value])

\* the loop looks at a token, and the stack top is a terminal other than
\* epsilon of another kind
KindDiffers ==
    /\ InLoop /\ ~Skipped
    /\ ~Top.isNonTerminal /\ Top.value # "EPS" /\ Top.value # Kind

\* C32: when the stack top is a terminal other than epsilon whose kind differs
\* from the kind of the current token, the parser sets the error flag, pops
\* exactly that one element and keeps the input position: the same token is
\* compared against the next stack element.
C32_TerminalMismatchPopsOne ==
    [][KindDiffers =>
        /\ hasSyntaxError'
        /\ theStack' = Tail(theStack)
        /\ inputPtr' = inputPtr]_vars

\* after a mismatch the loop is at the same token with the next element on top
C32_Witness ==
    /\ plast = "mismatch" /\ hasSyntaxError
    /\ InLoop /\ ~Skipped

-----------------------------------------------------------------------------
(* The tree handed to printParseTree *)

\* C33: whenever parseTokens returns with the flag false, every leaf labelled
\* by a terminal has an entry (printTreeNode reads its lexeme and its token
\* type) and every node labelled by a non-terminal has at least one child.
C33_PrintedTreeHasNoMissingEntry ==
    (Returned /\ ~hasSyntaxError) =>
        \A n \in 1..Len(nodes) :
            IF nodes[n].symbol[1].isNonTerminal
            THEN Len(nodes[n].children) >= 1
            ELSE nodes[n].children = <<>> /\ nodes[n].ste # <<>>

\* a tree returned without errors that holds a matched leaf, an epsilon leaf
\* and a non-terminal below the root
C33_Witness ==
    /\ Returned /\ ~hasSyntaxError
    /\ \E n \in 1..Len(nodes) : IsTerminalLeaf(nodes[n]) /\ ~IsEpsilonLeaf(nodes[n])
    /\ \E n \in 1..Len(nodes) : IsEpsilonLeaf(nodes[n])
    /\ \E n \in 2..Len(nodes) : nodes[n].symbol[1].isNonTerminal

-----------------------------------------------------------------------------
(* The retract flag between two runs of the lexer *)

\* the first fetchNextChar of a call fills the first segment from the start
\* of the file
InitialLoad(d) ==
    /\ d.fwd = 0 /\ d.ch = FileByte(1)
    /\ d.off = (IF Len(file) < BUFFER_SZ THEN Len(file) ELSE BUFFER_SZ)
    /\ d.eof = (Len(file) < BUFFER_SZ)

\* getAllTokens is at its first call of getNextToken
AtFirstCall == lexpc = "lexing" /\ tokenList = <<>>

\* C34: whenever getNextToken has returned the end-of-input token the global
\* retractFlag is false; so a later run of the lexer in the same process
\* starts with the cursor at 2 * BUFFER_SZ - 1 and its first fetchNextChar
\* loads the first segment of the buffer.
C34_FlagIsFalseAtEndOfInput ==
    /\ [](lexpc = "done" => ~retractFlag)
    /\ [](AtFirstCall => fwdPtr = 2 * BUFFER_SZ - 1 /\ InitialLoad(fetchNextChar(Locals)))

\* a second run, after a first one that retracted across a segment boundary,
\* is at its first call
C34_Witness ==
    /\ AtFirstCall /\ hist.run = 2
    /\ hist.ok1

-----------------------------------------------------------------------------
(* The kind of a reused entry *)

\* C35: for every token node, the kind its entry holds (an entry made for the
\* token or one found by lookupToken, which compares lexemes only) is the
\* kind of the accepting state that recognised the token.
C35_EntryKindIsTheAcceptedKind ==
    \A i \in 1..Len(tokenList) : tokenList[i].entry.tokenType = hist.kinds[i]

-----------------------------------------------------------------------------
(* Conflicts of the parse table *)

\* the rules of non-terminal n that select the cell of n and t
Selecting(n, t) == {r \in 1..Len(Grammar) : Grammar[r].lhs = n /\ BelongsIn(r, t)}

Latest(S) == CHOOSE r \in S : \A q \in S : q <= r

\* C36: when two rules of the same non-terminal N select the same cell [N][t],
\* the construction goes through: the diagnostic is printed and, after
\* initializeParseTable has returned, the cell holds the rule that comes later
\* in the grammar.
C36_LaterRuleWinsTheCell ==
    TableDone =>
        \A n \in Rows : \A t \in Columns :
            Cardinality(Selecting(n, t)) >= 2 =>
                /\ conflicts >= 1
                /\ Cell(parseTable, n, t) = Latest(Selecting(n, t))

\* the table is built and two rules select one of its cells
C36_Witness ==
    /\ TableDone
    /\ conflicts >= 1
    /\ \E n \in Rows : \E t \in Columns : Cardinality(Selecting(n, t)) >= 2

-----------------------------------------------------------------------------
(* Line numbers of the nodes *)

\* C37: in every tree returned by parseTokens every node has the line number
\* of a token of the input, the one that was current when the node was
\* matched, bound as epsilon, expanded or popped; none keeps the line number
\* -1 that createParseNode gives it.
C37_EveryNodeHasALineOfTheInput ==
    Returned =>
        \A n \in 1..Len(nodes) :
            \E i \in 1..Len(tokens) : nodes[n].lineNumber = tokens[i].lineNum

-----------------------------------------------------------------------------
(* The order of the rows of the parse tree *)

\* node x is node a or lies below it
RECURSIVE Under(_, _, _)
Under(ns, x, a) == x = a \/ (ns[x].parent # 0 /\ Under(ns, ns[x].parent, a))

\* the row of node x
RowOf(x) == CHOOSE i \in 1..Len(printed) : printed[i] = x

\* C38: inorderTraverse prints every node of the tree exactly once; for each
\* node the whole subtree of its first child comes first, then the node, then
\* the subtrees of its other children from left to right.
C38_FirstChildNodeOtherChildren ==
    ppc = "printed" =>
        /\ Len(printed) = Len(nodes)
        /\ \A n \in 1..Len(nodes) : \E i \in 1..Len(printed) : printed[i] = n
        /\ \A n \in 1..Len(nodes) : \A k \in 1..Len(nodes[n].children) :
              \A x \in 1..Len(nodes) :
                  Under(nodes, x, nodes[n].children[k]) =>
                      /\ (k = 1 => RowOf(x) < RowOf(n))
                      /\ (k > 1 => RowOf(n) < RowOf(x))
                      /\ \A j \in 1..(k - 1) : \A y \in 1..Len(nodes) :
                            Under(nodes, y, nodes[n].children[j]) => RowOf(y) < RowOf(x)

\* a printed tree with a node whose first two children have children
C38_Witness ==
    /\ ppc = "printed"
    /\ \E n \in 1..Len(nodes) :
          /\ Len(nodes[n].children) >= 2
          /\ nodes[nodes[n].children[1]].children # <<>>
          /\ nodes[nodes[n].children[2]].children # <<>>

-----------------------------------------------------------------------------
(* initializeNonTerminalToString and the names readGrammar looks up *)

\* the names a line of grammar.txt can hold: the ones assigned, and one that
\* is none of them
RuleNames == {NameAssignments[k][2] : k \in 1..Len(NameAssignments)} \cup {"<x>"}

NamesInit ==
    /\ nonTerminalsInitialized = FALSE /\ nonTerminalToString = NoNames
    /\ ntRule = NoRule /\ npc = "start"
    /\ LexerIdle /\ ParserIdle

\* the assignment to an index that is not below NT_NOT_FOUND writes outside
\* the array: the process goes on with the array as the other assignments
\* left it, or is killed
initializeNonTerminalToString ==
    /\ npc = "start"
    /\ nonTerminalsInitialized' = TRUE
    /\ nonTerminalToString' = StoreNames(nonTerminalToString, 1)
    /\ \/ npc' = "ready"
       \/ /\ \E k \in 1..Len(NameAssignments) :
                NonTerminalValue[NameAssignments[k][1]] \notin DOMAIN nonTerminalToString
          /\ npc' = "killed"
    /\ UNCHANGED <<ntRule, lexVars, Grammar, AutoFirst, AutoFollow, parseTable, conflicts,
                   Parsing_but_names, grammarTxt, grammarOpens, grammarLoaded,
                   firstFollowComputed, parseTreeInitialized, ipc, passGri, modified, round>>

\* readGrammar at the first name of a line: gRule->lhs->value.nt
readRuleLhs ==
    /\ npc = "ready"
    /\ \E lhsStr \in RuleNames :
          ntRule' = [NoRule EXCEPT !.lhsStr = lhsStr,
                        !.lhs = getNonTerminalFromString(nonTerminalToString, lhsStr)]
    /\ UNCHANGED <<nonTerminalsInitialized, nonTerminalToString, npc, lexVars, Grammar,
                   AutoFirst, AutoFollow, parseTable, conflicts, Parsing_but_names,
                   grammarTxt, grammarOpens, grammarLoaded, firstFollowComputed,
                   parseTreeInitialized, ipc, passGri, modified, round>>

\* readGrammar at a name of the right-hand side that starts with '<':
\* su->value.nt
readRuleSymbol ==
    /\ npc = "ready"
    /\ ntRule # NoRule
    /\ \E symStr \in RuleNames :
          ntRule' = [ntRule EXCEPT !.symStr = symStr,
                        !.sym = getNonTerminalFromString(nonTerminalToString, symStr)]
    /\ UNCHANGED <<nonTerminalsInitialized, nonTerminalToString, npc, lexVars, Grammar,
                   AutoFirst, AutoFollow, parseTable, conflicts, Parsing_but_names,
                   grammarTxt, grammarOpens, grammarLoaded, firstFollowComputed,
                   parseTreeInitialized, ipc, passGri, modified, round>>

NamesNext == initializeNonTerminalToString \/ readRuleLhs \/ readRuleSymbol

SpecNames == NamesInit /\ [][NamesNext]_vars

\* C39: for every non-terminal of the enumeration but the sentinel
\* NT_NOT_FOUND, initializeNonTerminalToString stores the name at an index
\* below NT_NOT_FOUND and getNonTerminalFromString applied to the name gives
\* the non-terminal back, never the sentinel: the non-terminals named in a
\* rule are indexes inside FIRST, FOLLOW and the parse table.
C39_EveryNameGivesItsNonTerminal ==
    npc = "ready" =>
        /\ \A k \in 1..Len(NameAssignments) :
              /\ Named(k) < NonTerminalValue["NT_NOT_FOUND"]
              /\ nonTerminalToString[Named(k)] = NameAssignments[k][2]
        /\ \A k \in 1..Len(NameAssignments) :
              /\ ntRule.lhsStr = NameAssignments[k][2] =>
                    ntRule.lhs = Named(k) /\ ntRule.lhs < NonTerminalValue["NT_NOT_FOUND"]
              /\ ntRule.symStr = NameAssignments[k][2] =>
                    ntRule.sym = Named(k) /\ ntRule.sym < NonTerminalValue["NT_NOT_FOUND"]
====
